---- MODULE Spec2Model ----
(***************************************************************************)
(* Model of the remote LaTeX compilation client of the AI-powered LaTeX    *)
(* document creator: the two exported compileLatexToPdf implementations    *)
(* (services/latexCompilationService.ts, single-phase latexonline.cc, and  *)
(* services/geminiService.ts, two-phase rtex) and their caller in App,     *)
(* handleCompileAndDownload.                                               *)
(*                                                                         *)
(* A response body is a short sequence of word tokens; String.includes is  *)
(* membership of a (lower-cased) token.  A JSON body carries its parsed    *)
(* envelope; its bytes are the rendering JsonText.  Base64 is computed on  *)
(* real sextet values over a small alphabet.                               *)
(***************************************************************************)
EXTENDS Integers, Sequences, FiniteSets, TLC

\* ------------------------------------------------------------------ bounds
MaxBodyLen == 2
MaxLogLen == 2
ShortBodyLen == 1
ShortLogLen == 1
NumCalls == 2
MaxPlainLen == 2
MaxPromptLen == 3

\* ------------------------------------------------------------- value sets
None == [tag |-> "none"]

\* A document is its sequence of characters.
docA == <<"a", "b">>
docB == <<"a", "c">>
Docs == {docA, docB}
initialLatexCode == docA

Statuses == {200, 404, 502}

\* The words of a text body, among them a blank and an HTML <pre> region.
TextTokens == {"%PDF", "Proxy", "allorigins", "error", "log", " ", "<pre>log</pre>"}

RECURSIVE SeqsUpTo(_, _)
SeqsUpTo(S, n) ==
    IF n = 0 THEN {<<>>}
    ELSE LET shorter == SeqsUpTo(S, n - 1)
         IN  shorter \cup {Append(s, x) : s \in {t \in shorter : Len(t) = n - 1}, x \in S}

\* Content-Type header values: absent, or a media type followed by parameters.
NoHeader == [present |-> FALSE, value |-> <<>>]
Header(v) == [present |-> TRUE, value |-> v]
ContentTypes ==
    {NoHeader,
     Header(<<"application/pdf">>),
     Header(<<"application/pdf", ";charset=binary">>),
     Header(<<"text/plain">>),
     Header(<<"text/html">>),
     Header(<<"application/json">>),
     Header(<<"application/octet-stream">>)}

\* The base64 alphabet, the character of value v at position v + 1.
B64Table ==
    <<"A", "B", "C", "D", "E", "F", "G", "H", "I", "J", "K", "L", "M", "N", "O", "P",
      "Q", "R", "S", "T", "U", "V", "W", "X", "Y", "Z", "a", "b", "c", "d", "e", "f",
      "g", "h", "i", "j", "k", "l", "m", "n", "o", "p", "q", "r", "s", "t", "u", "v",
      "w", "x", "y", "z", "0", "1", "2", "3", "4", "5", "6", "7", "8", "9", "+", "/">>
B64Alphabet == {B64Table[i] : i \in 1..64}
B64Val == [c \in B64Alphabet |-> (CHOOSE i \in 1..64 : B64Table[i] = c) - 1]

\* Characters of an arbitrary JSON log field: three alphabet characters,
\* the padding character and one character outside the alphabet.
B64Chars == {"Q", "U", "g", "=", "!"}

\* What the compilation service does to its log: the UTF-8 bytes of the
\* text (code points below U+0800), in base64 with padding.
Utf8(cp) == IF cp < 128 THEN <<cp>> ELSE <<192 + (cp \div 64), 128 + (cp % 64)>>
RECURSIVE Utf8Bytes(_)
Utf8Bytes(text) == IF text = <<>> THEN <<>> ELSE Utf8(Head(text)) \o Utf8Bytes(Tail(text))

RECURSIVE Btoa(_)
Btoa(b) ==
    IF Len(b) = 0 THEN <<>>
    ELSE IF Len(b) = 1
    THEN <<B64Table[(b[1] \div 4) + 1], B64Table[(b[1] % 4) * 16 + 1], "=", "=">>
    ELSE IF Len(b) = 2
    THEN <<B64Table[(b[1] \div 4) + 1], B64Table[(b[1] % 4) * 16 + (b[2] \div 16) + 1],
           B64Table[(b[2] % 16) * 4 + 1], "=">>
    ELSE <<B64Table[(b[1] \div 4) + 1], B64Table[(b[1] % 4) * 16 + (b[2] \div 16) + 1],
           B64Table[(b[2] % 16) * 4 + (b[3] \div 64) + 1], B64Table[(b[3] % 64) + 1]>>
         \o Btoa(SubSeq(b, 4, Len(b)))

\* The logs of the service: texts over the letter A and the letter e-acute.
PlainChars == {65, 233}

\* The parsed JSON value: null, or an object of which the client reads
\* status, log and filename; inline stands for any other member, such as
\* the bytes of a document sent inside the envelope.
NoEnv == [isNull |-> FALSE, status |-> "absent", log |-> <<>>, filename |-> "", inline |-> <<>>]
Env(st, lg, fn) == [isNull |-> FALSE, status |-> st, log |-> lg, filename |-> fn, inline |-> <<>>]
EnvInline(fn, data) == [Env("success", <<>>, fn) EXCEPT !.inline = data]
NullEnv == [isNull |-> TRUE, status |-> "absent", log |-> <<>>, filename |-> "", inline |-> <<>>]
EnvelopesUpTo(n) ==
    {Env("error", lg, "") : lg \in SeqsUpTo(B64Chars, n)}
    \cup {Env(st, <<>>, fn) : st \in {"absent", "success", "other"}, fn \in {"", "f1", "error"}}
    \cup {Env("error", <<"Q", "Q">>, "f1"), NullEnv}
    \cup {EnvInline("", <<"%PDF">>), EnvInline("f1", <<"%PDF">>)}

\* The envelopes that report an error with an encoded log of the service.
EncodedLogEnvelopes ==
    {Env("error", Btoa(Utf8Bytes(L)), "") : L \in SeqsUpTo(PlainChars, MaxPlainLen)}

TextBody(t) == [kind |-> "text", toks |-> t, env |-> NoEnv]
JsonBody(e) == [kind |-> "json", toks |-> <<>>, env |-> e]
Unreadable == [kind |-> "unreadable", toks |-> <<>>, env |-> NoEnv]

\* What the remote side may answer: text (or a body that cannot be read)
\* under every status and content type, JSON under every status and three
\* content types.
JsonContentTypes == {NoHeader, Header(<<"application/json">>), Header(<<"application/pdf">>)}
ResponsesUpTo(bodyLen, logLen) ==
    [status : Statuses, ct : ContentTypes,
     body : {TextBody(t) : t \in SeqsUpTo(TextTokens, bodyLen)} \cup {Unreadable}]
    \cup [status : Statuses, ct : JsonContentTypes,
          body : {JsonBody(e) : e \in EnvelopesUpTo(logLen)}]

Responses ==
    ResponsesUpTo(MaxBodyLen, MaxLogLen)
    \cup [status : Statuses, ct : JsonContentTypes,
          body : {JsonBody(e) : e \in EncodedLogEnvelopes}]

\* The short responses, for the specification with fairness.
ShortResponses == ResponsesUpTo(ShortBodyLen, ShortLogLen)

FetchErrors == {"FailedToFetch", "Other"}

\* ------------------------------------------------- browser-side primitives
\* Response.ok
Ok(status) == status >= 200 /\ status <= 299

\* The bytes of a JSON body, as word tokens.
JsonText(e) ==
    IF e.isNull THEN <<"null">>
    ELSE <<"{">> \o (IF e.status = "absent" THEN <<>> ELSE <<e.status>>)
         \o e.log
         \o (IF e.filename = "" THEN <<>> ELSE <<e.filename>>) \o e.inline \o <<"}">>

\* The bytes of a readable body (Response.text() / Blob.text()).
BodyText(body) == IF body.kind = "json" THEN JsonText(body.env) ELSE body.toks

\* String.prototype.toLowerCase on one token.
Lower(tok) == IF tok = "Proxy" THEN "proxy" ELSE tok

\* text.toLowerCase().includes(word)
IncludesLower(text, word) == \E i \in 1..Len(text) : Lower(text[i]) = word

\* contentType.includes(mediaType)
CtIncludes(ct, mediaType) == \E i \in 1..Len(ct.value) : ct.value[i] = mediaType

\* Blob.type of Response.blob(): the serialised Content-Type, "" when absent.
BlobType(ct) == IF ct.present THEN ct.value ELSE <<>>

\* Response.json(): fails on an unreadable body and on a body that is not JSON.
JsonParses(body) == body.kind = "json"

\* atob(): forgiving-base64 decode.  When the length is a multiple of four,
\* one or two trailing "=" are removed; a remaining length of 1 mod 4 or a
\* character outside the alphabet is an InvalidCharacterError.
StripPadding(s) ==
    IF Len(s) % 4 = 0 /\ Len(s) > 0 /\ s[Len(s)] = "="
    THEN IF s[Len(s) - 1] = "=" THEN SubSeq(s, 1, Len(s) - 2)
         ELSE SubSeq(s, 1, Len(s) - 1)
    ELSE s

AtobValid(s) ==
    LET d == StripPadding(s)
    IN  /\ Len(d) % 4 # 1
        /\ \A i \in 1..Len(d) : d[i] \in B64Alphabet

RECURSIVE DecodeSextets(_)
DecodeSextets(d) ==
    IF Len(d) < 2 THEN <<>>
    ELSE LET a == B64Val[d[1]]
             b == B64Val[d[2]]
             b1 == a * 4 + (b \div 16)
         IN  IF Len(d) = 2 THEN <<b1>>
             ELSE LET c == B64Val[d[3]]
                      b2 == (b % 16) * 16 + (c \div 4)
                  IN  IF Len(d) = 3 THEN <<b1, b2>>
                      ELSE <<b1, b2, (c % 4) * 64 + B64Val[d[4]]>>
                           \o DecodeSextets(SubSeq(d, 5, Len(d)))

Atob(s) == DecodeSextets(StripPadding(s))

\* --------------------------------------------------------- thrown errors
\* An Error is its message: the fixed wording (msg) and the interpolated parts.
Err(m) == [tag |-> "error", msg |-> m, status |-> 0, text |-> <<>>,
           bytes |-> <<>>, note |-> "", type |-> <<>>]

Blob(body, ct) == [tag |-> "blob", bytes |-> BodyText(body), type |-> BlobType(ct)]

\* The settled promise of one call: a resolved Blob or a rejection.
Resolve(b) == [returned |-> b, thrown |-> None]
Reject(e) == [returned |-> None, thrown |-> e]
Pending == [returned |-> None, thrown |-> None]

\* ------------------------- latexCompilationService.ts: compileLatexToPdf
\* catch of the submit fetch() (both implementations word it alike).
SubmitThrown(e) ==
    IF e = "FailedToFetch" THEN Reject(Err("NetworkErrorCouldNotConnect"))
    ELSE Reject(Err("UnexpectedErrorContactingService"))

\* if (!response.ok): the status and the body text go into the message.
DirectStatusError(resp) ==
    Reject([Err("ServiceOrProxyReturnedError") EXCEPT
              !.status = resp.status,
              !.text = IF resp.body.kind = "unreadable" THEN <<>> ELSE BodyText(resp.body),
              !.note = IF resp.body.kind = "unreadable" THEN "CouldNotReadErrorBody" ELSE ""])

\* DirectPdf returning a blob that lost its last chunk.
DirectPdf_Truncated(resp) ==
    Resolve([Blob(resp.body, resp.ct) EXCEPT
               !.bytes = SubSeq(BodyText(resp.body), 1, Len(BodyText(resp.body)) - 1)])

\* contentType includes application/pdf: return blob.
DirectPdf(resp) == Resolve(Blob(resp.body, resp.ct))

\* DirectLog reporting, of an HTML page, the text of its first <pre> region
\* and a fixed placeholder when there is none.
DirectLog_ExtractsPre(resp) ==
    LET logText == BodyText(resp.body)
        pres == {i \in 1..Len(logText) : logText[i] = "<pre>log</pre>"}
    IN  IF IncludesLower(logText, "allorigins") \/ IncludesLower(logText, "proxy")
        THEN Reject(Err("ProxyReturnedErrorPage"))
        ELSE IF ~CtIncludes(resp.ct, "text/html")
        THEN Reject([Err("LatexCompilationFailed") EXCEPT !.text = logText])
        ELSE IF pres # {}
        THEN Reject([Err("LatexCompilationFailed") EXCEPT !.text = <<"log">>])
        ELSE Reject([Err("LatexCompilationFailed") EXCEPT !.note = "CouldNotExtractLog"])

\* String.prototype.trim on a text of words: the blanks at both ends go.
RECURSIVE TrimStart(_)
TrimStart(text) ==
    IF text # <<>> /\ text[1] = " " THEN TrimStart(Tail(text)) ELSE text
RECURSIVE TrimEnd(_)
TrimEnd(text) ==
    IF text # <<>> /\ text[Len(text)] = " " THEN TrimEnd(SubSeq(text, 1, Len(text) - 1))
    ELSE text
Trim(text) == TrimEnd(TrimStart(text))

\* DirectLog trimming the log before it goes into the message.
DirectLog_Trims(resp) ==
    LET logText == BodyText(resp.body)
    IN  IF IncludesLower(logText, "allorigins") \/ IncludesLower(logText, "proxy")
        THEN Reject(Err("ProxyReturnedErrorPage"))
        ELSE Reject([Err("LatexCompilationFailed") EXCEPT !.text = Trim(logText)])

\* DirectLog without the test for the words of a proxy page.
DirectLog_NoProxyCheck(resp) ==
    Reject([Err("LatexCompilationFailed") EXCEPT !.text = BodyText(resp.body)])

\* DirectLog throwing the compilation failure without the log.
DirectLog_DropsLog(resp) ==
    LET logText == BodyText(resp.body)
    IN  IF IncludesLower(logText, "allorigins") \/ IncludesLower(logText, "proxy")
        THEN Reject(Err("ProxyReturnedErrorPage"))
        ELSE Reject(Err("LatexCompilationFailed"))

\* contentType includes text/plain or text/html: proxy page or compilation log.
DirectLog(resp) ==
    LET logText == BodyText(resp.body)
    IN  IF IncludesLower(logText, "allorigins") \/ IncludesLower(logText, "proxy")
        THEN Reject(Err("ProxyReturnedErrorPage"))
        ELSE Reject([Err("LatexCompilationFailed") EXCEPT !.text = logText])

\* else: any other or no content type.
DirectUnexpected(resp) ==
    Reject([Err("UnexpectedResponse") EXCEPT !.type = BlobType(resp.ct)])

\* DirectByContentType without the final else: the function runs off its
\* end and nothing is returned or thrown for such a response.
DirectByContentType_NoElse(resp) ==
    IF resp.ct.present /\ CtIncludes(resp.ct, "application/pdf") THEN DirectPdf(resp)
    ELSE IF resp.ct.present /\ (CtIncludes(resp.ct, "text/plain") \/ CtIncludes(resp.ct, "text/html"))
         THEN DirectLog(resp)
         ELSE Pending

\* DirectByContentType taking every body that is not declared a PDF for a log.
DirectByContentType_DefaultsToLog(resp) ==
    IF resp.ct.present /\ CtIncludes(resp.ct, "application/pdf") THEN DirectPdf(resp)
    ELSE DirectLog(resp)


DirectByContentType(resp) ==
    IF resp.ct.present /\ CtIncludes(resp.ct, "application/pdf") THEN DirectPdf(resp)
    ELSE IF resp.ct.present /\ (CtIncludes(resp.ct, "text/plain") \/ CtIncludes(resp.ct, "text/html"))
         THEN DirectLog(resp)
         ELSE DirectUnexpected(resp)

\* DirectOutcome losing the outcome of a body that cannot be read.
DirectOutcome_LosesOutcome(resp) ==
    IF ~Ok(resp.status) THEN DirectStatusError(resp)
    ELSE IF resp.body.kind = "unreadable" THEN Pending
         ELSE DirectByContentType(resp)

\* DirectOutcome without the response.ok test.
DirectOutcome_NoStatusCheck(resp) ==
    IF resp.body.kind = "unreadable" THEN Reject(Err("BodyReadFailed"))
    ELSE DirectByContentType(resp)

\* Everything after the submit response arrived.  response.blob() is awaited
\* outside any try: a body that cannot be read rejects the call as it is.
DirectOutcome(resp) ==
    IF ~Ok(resp.status) THEN DirectStatusError(resp)
    ELSE IF resp.body.kind = "unreadable" THEN Reject(Err("BodyReadFailed"))
         ELSE DirectByContentType(resp)

\* ---------------------------------- geminiService.ts: compileLatexToPdf
RtexStatusError(resp) ==
    IF resp.status >= 500
    THEN Reject([Err("ServiceOrProxyDown") EXCEPT !.status = resp.status])
    ELSE Reject([Err("ServiceReturnedError") EXCEPT
                   !.status = resp.status,
                   !.text = IF resp.body.kind = "unreadable" THEN <<>> ELSE BodyText(resp.body),
                   !.note = IF resp.body.kind = "unreadable" THEN "CouldNotReadErrorBody" ELSE ""])

\* RtexDiagnostic with atob outside the try: the decode error is what is thrown.
RtexDiagnostic_NoCatch(env) ==
    IF env.log = <<>>
    THEN Reject([Err("LatexCompilationFailed") EXCEPT !.note = "NoLogAvailable"])
    ELSE IF AtobValid(env.log)
         THEN Reject([Err("LatexCompilationFailed") EXCEPT !.bytes = Atob(env.log)])
         ELSE Reject(Err("InvalidCharacterError"))

\* result.status === 'error': the log is Base64; atob is wrapped in try/catch.
RtexDiagnostic(env) ==
    IF env.log = <<>>
    THEN Reject([Err("LatexCompilationFailed") EXCEPT !.note = "NoLogAvailable"])
    ELSE IF AtobValid(env.log)
         THEN Reject([Err("LatexCompilationFailed") EXCEPT !.bytes = Atob(env.log)])
         ELSE Reject([Err("LatexCompilationFailed") EXCEPT !.note = "CouldNotDecodeLog"])

\* RtexIsReference looking at the file name only.
RtexIsReference_AnyFilename(env) == env.filename # ""

\* The envelope asks for the second request.
RtexIsReference(env) == env.status = "success" /\ env.filename # ""

\* Everything between the submit response and the second fetch(): a settled
\* outcome, or Pending when the file named by the envelope is to be fetched.
RtexSubmitOutcome(resp) ==
    IF ~Ok(resp.status) THEN RtexStatusError(resp)
    ELSE IF ~JsonParses(resp.body) THEN Reject(Err("FailedToParseResponse"))
    ELSE IF resp.body.env.isNull THEN Reject(Err("TypeErrorReadingNull"))
    ELSE IF resp.body.env.status = "error" THEN RtexDiagnostic(resp.body.env)
    ELSE IF ~RtexIsReference(resp.body.env) THEN Reject(Err("UnexpectedEnvelope"))
    ELSE Pending

FetchThrown(e) ==
    IF e = "FailedToFetch" THEN Reject(Err("NetworkErrorCouldNotDownload"))
    ELSE Reject(Err("UnexpectedErrorDownloading"))

\* pdfBlob.type !== 'application/pdf'
RtexNotPdf(resp) ==
    LET textContent == BodyText(resp.body)
    IN  IF IncludesLower(textContent, "proxy") \/ IncludesLower(textContent, "error")
        THEN Reject(Err("ProxyPageInsteadOfPdf"))
        ELSE Reject([Err("DownloadedFileNotPdf") EXCEPT !.type = BlobType(resp.ct)])

\* RtexFetchOutcome without the test of the blob type.
RtexFetchOutcome_NoTypeCheck(resp) ==
    IF ~Ok(resp.status)
    THEN Reject([Err("FailedToDownloadPdf") EXCEPT !.status = resp.status])
    ELSE IF resp.body.kind = "unreadable" THEN Reject(Err("BodyReadFailed"))
    ELSE Resolve(Blob(resp.body, resp.ct))


RtexFetchOutcome(resp) ==
    IF ~Ok(resp.status)
    THEN Reject([Err("FailedToDownloadPdf") EXCEPT !.status = resp.status])
    ELSE IF resp.body.kind = "unreadable" THEN Reject(Err("BodyReadFailed"))
    ELSE IF BlobType(resp.ct) # <<"application/pdf">> THEN RtexNotPdf(resp)
    ELSE Resolve(Blob(resp.body, resp.ct))

\* DirectRequest sending the document the editor started with instead of
\* the one passed to the call.
DirectRequest_InitialCode(code) ==
    [phase |-> "submit", code |-> initialLatexCode, command |-> "pdflatex",
     format |-> "", filename |-> ""]

\* The outbound requests.
DirectRequest(code) ==
    [phase |-> "submit", code |-> code, command |-> "pdflatex", format |-> "", filename |-> ""]
RtexRequest(code) ==
    [phase |-> "submit", code |-> code, command |-> "", format |-> "pdf", filename |-> ""]
RtexPdfRequest(fn) ==
    [phase |-> "fetch", code |-> <<>>, command |-> "", format |-> "", filename |-> fn]

\* The locals of one call of compileLatexToPdf made by another caller.
CallIds == 1..NumCalls
IdleCall ==
    [pc |-> "idle", code |-> <<>>, submitResp |-> None, fetchResp |-> None,
     threw |-> "", settled |-> Pending, nFetch |-> 0]

\* App's selection state: null, or the text and the range reported by the
\* editor's select event.
NoSelection == [present |-> FALSE, text |-> <<>>, start |-> 0, end |-> 0]
Selection(text, start, end) == [present |-> TRUE, text |-> text, start |-> start, end |-> end]

\* A pasted image or a chosen PDF: null, or the data URL the FileReader gave.
NoFile == [present |-> FALSE, url |-> <<>>]
DataUrl(parts) == [present |-> TRUE, url |-> parts]

\* No AI operation is in flight.
NoCall ==
    [op |-> "null", by |-> "", code |-> <<>>, sel |-> NoSelection, format |-> "", sent |-> 0]

\* ------------------------------------------------------------------ state
VARIABLES
    impl,         \* the module whose compileLatexToPdf App imports
    latexCode,    \* App state
    isLoading,
    isCompiling,
    error,
    compileError,
    pc,           \* position of the running call: idle, submit, fetch, done
    net,          \* requests in flight
    submitResp,   \* the call's local compileResponse / response
    fetchResp,    \* the call's local pdfResponse
    settled,      \* the call's promise: Pending, Resolve(blob) or Reject(err)
    nSubmit,      \* requests issued by the running call
    nFetch,
    downloads,    \* blobs handed to the browser as document.pdf by the last call
    waited,       \* the running call has awaited a fetch() beyond any deadline
    calls,        \* calls of compileLatexToPdf made side by side by other callers
    outputFormat,      \* App state
    userPrompt,
    activeActionType,
    selection,         \* selectedText, selectionStart, selectionEnd
    pastedImage,       \* with imageMimeType
    selectedPdf,       \* with pdfMimeType and pdfFileName
    aiCall,            \* the AI operation in flight: its handler's closure
    isListening,       \* useVoiceRecognition state
    voiceError,
    recognition,       \* the browser's SpeechRecognition object
    apiKey             \* process.env.API_KEY, fixed when the app is built

vars == <<impl, latexCode, isLoading, isCompiling, error, compileError, pc, net,
          submitResp, fetchResp, settled, nSubmit, nFetch, downloads, waited, calls,
          outputFormat, userPrompt, activeActionType, selection, pastedImage,
          selectedPdf, aiCall, isListening, voiceError, recognition, apiKey>>

\* The state of the prompt box, the pickers, the AI operation and the
\* microphone.  selectedInputMethod, imagePrompt, pdfPrompt and pdfFileName
\* are left out: no handler branches on them, they only choose the panel
\* shown and travel in the request.
uiVars == <<outputFormat, userPrompt, activeActionType, selection, pastedImage,
            selectedPdf, aiCall, isListening, voiceError, recognition, apiKey>>

appVars == <<latexCode, isLoading, isCompiling, error, compileError, downloads>>

\* The state after App, PromptControls and useVoiceRecognition have mounted,
\* in a build made with the given API key.
InitWith(key) ==
    /\ apiKey = key
    /\ impl \in {"latexonline", "rtex"}
    /\ latexCode = initialLatexCode
    /\ isLoading = FALSE
    /\ isCompiling = FALSE
    /\ error = None
    /\ compileError = None
    /\ pc = "idle"
    /\ net = {}
    /\ submitResp = None
    /\ fetchResp = None
    /\ settled = Pending
    /\ nSubmit = 0
    /\ nFetch = 0
    /\ downloads = <<>>
    /\ waited = FALSE
    /\ calls = [i \in CallIds |-> IdleCall]
    /\ outputFormat = "beamer"
    /\ userPrompt = <<>>
    /\ activeActionType = "null"
    /\ selection = NoSelection
    /\ pastedImage = NoFile
    /\ selectedPdf = NoFile
    /\ aiCall = NoCall
    /\ isListening = FALSE
    /\ voiceError = "null"
    /\ recognition = "idle"

\* The compile path never reads the key: the build has one.
Init == InitWith("key")

\* App.handleLatexCodeChange: the editor is never disabled.
HandleLatexCodeChange(newCode) ==
    /\ newCode # latexCode
    /\ latexCode' = newCode
    /\ UNCHANGED <<impl, uiVars, calls, waited, isLoading, isCompiling, error, compileError, pc, net,
                   submitResp, fetchResp, settled, nSubmit, nFetch, downloads>>

\* App.handleCompileAndDownload up to the first await inside
\* compileLatexToPdf: the busy guard, setIsCompiling(true), clearErrors() and
\* the submit fetch().
HandleCompileAndDownload ==
    /\ ~(isLoading \/ isCompiling)
    /\ isCompiling' = TRUE
    /\ error' = None
    /\ compileError' = None
    /\ pc' = "submit"
    /\ net' = {IF impl = "latexonline" THEN DirectRequest(latexCode) ELSE RtexRequest(latexCode)}
    /\ nSubmit' = 1
    /\ nFetch' = 0
    /\ downloads' = <<>>
    /\ submitResp' = None
    /\ fetchResp' = None
    /\ settled' = Pending
    /\ waited' = FALSE
    /\ UNCHANGED <<impl, uiVars, calls, latexCode, isLoading>>

\* SubmitThrows with a catch that does not throw: the call goes on to the download.
SubmitThrows_FallsThrough(e) ==
    /\ pc = "submit"
    /\ net' = {RtexPdfRequest("")}
    /\ nFetch' = nFetch + 1
    /\ pc' = "fetch"
    /\ UNCHANGED <<impl, uiVars, calls, waited, appVars, submitResp, fetchResp, settled, nSubmit>>

\* SubmitThrows issuing the submit request once more before giving up.
SubmitThrows_Retries(e) ==
    /\ pc = "submit"
    /\ IF nSubmit < 2
       THEN /\ nSubmit' = nSubmit + 1
            /\ UNCHANGED <<net, settled, pc>>
       ELSE /\ net' = {}
            /\ settled' = SubmitThrown(e)
            /\ pc' = "done"
            /\ UNCHANGED nSubmit
    /\ UNCHANGED <<impl, uiVars, calls, waited, appVars, submitResp, fetchResp, nFetch>>

\* The submit fetch() rejects.
SubmitThrows(e) ==
    /\ pc = "submit"
    /\ net' = {}
    /\ settled' = SubmitThrown(e)
    /\ pc' = "done"
    /\ UNCHANGED <<impl, uiVars, calls, waited, appVars, submitResp, fetchResp, nSubmit, nFetch>>

\* The submit fetch() resolves with a response; the call runs to its next
\* network await or to its end.
SubmitResponds(resp) ==
    /\ pc = "submit"
    /\ submitResp' = resp
    /\ IF impl = "latexonline"
       THEN /\ settled' = DirectOutcome(resp)
            /\ pc' = "done"
            /\ net' = {}
            /\ UNCHANGED nFetch
       ELSE LET out == RtexSubmitOutcome(resp)
            IN  IF out = Pending
                THEN /\ net' = {RtexPdfRequest(resp.body.env.filename)}
                     /\ nFetch' = nFetch + 1
                     /\ pc' = "fetch"
                     /\ UNCHANGED settled
                ELSE /\ settled' = out
                     /\ pc' = "done"
                     /\ net' = {}
                     /\ UNCHANGED nFetch
    /\ UNCHANGED <<impl, uiVars, calls, waited, appVars, fetchResp, nSubmit>>

\* The download fetch() rejects.
FetchThrows(e) ==
    /\ pc = "fetch"
    /\ net' = {}
    /\ settled' = FetchThrown(e)
    /\ pc' = "done"
    /\ UNCHANGED <<impl, uiVars, calls, waited, appVars, submitResp, fetchResp, nSubmit, nFetch>>

\* FetchResponds following a Reference that comes back from the download.
FetchResponds_FollowsReference(resp) ==
    /\ pc = "fetch"
    /\ fetchResp' = resp
    /\ IF Ok(resp.status) /\ JsonParses(resp.body) /\ RtexIsReference(resp.body.env)
       THEN /\ net' = {RtexPdfRequest(resp.body.env.filename)}
            /\ nFetch' = nFetch + 1
            /\ UNCHANGED <<settled, pc>>
       ELSE /\ net' = {}
            /\ settled' = RtexFetchOutcome(resp)
            /\ pc' = "done"
            /\ UNCHANGED nFetch
    /\ UNCHANGED <<impl, uiVars, calls, waited, appVars, submitResp, nSubmit>>

\* The download fetch() resolves with a response.
FetchResponds(resp) ==
    /\ pc = "fetch"
    /\ fetchResp' = resp
    /\ net' = {}
    /\ settled' = RtexFetchOutcome(resp)
    /\ pc' = "done"
    /\ UNCHANGED <<impl, uiVars, calls, waited, appVars, submitResp, nSubmit, nFetch>>

\* CompileSettles reporting a failure in the field of the AI errors.
CompileSettles_SetsError ==
    /\ pc = "done"
    /\ IF settled.returned # None
       THEN /\ downloads' = Append(downloads, settled.returned)
            /\ UNCHANGED <<error, compileError>>
       ELSE /\ error' = settled.thrown
            /\ UNCHANGED <<downloads, compileError>>
    /\ isCompiling' = FALSE
    /\ pc' = "idle"
    /\ submitResp' = None
    /\ fetchResp' = None
    /\ settled' = Pending
    /\ nSubmit' = 0
    /\ nFetch' = 0
    /\ UNCHANGED <<impl, uiVars, calls, waited, latexCode, isLoading, net>>

\* The rest of App.handleCompileAndDownload: the download on a resolved
\* blob, setCompileError in the catch, setIsCompiling(false) in the finally.
CompileSettles ==
    /\ pc = "done"
    /\ IF settled.returned # None
       THEN /\ downloads' = Append(downloads, settled.returned)
            /\ UNCHANGED compileError
       ELSE /\ compileError' = settled.thrown
            /\ UNCHANGED downloads
    /\ isCompiling' = FALSE
    /\ pc' = "idle"
    /\ submitResp' = None
    /\ fetchResp' = None
    /\ settled' = Pending
    /\ nSubmit' = 0
    /\ nFetch' = 0
    /\ UNCHANGED <<impl, uiVars, calls, waited, latexCode, isLoading, error, net>>

Next ==
    \/ \E newCode \in Docs : HandleLatexCodeChange(newCode)
    \/ HandleCompileAndDownload
    \/ \E e \in FetchErrors : SubmitThrows(e)
    \/ pc = "submit" /\ \E resp \in Responses : SubmitResponds(resp)
    \/ \E e \in FetchErrors : FetchThrows(e)
    \/ pc = "fetch" /\ \E resp \in Responses : FetchResponds(resp)
    \/ CompileSettles

Spec == Init /\ [][Next]_vars

\* The same program, the remote side answering with the short responses.
NetworkStepShort ==
    \/ \E e \in FetchErrors : SubmitThrows(e)
    \/ pc = "submit" /\ \E resp \in ShortResponses : SubmitResponds(resp)
    \/ \E e \in FetchErrors : FetchThrows(e)
    \/ pc = "fetch" /\ \E resp \in ShortResponses : FetchResponds(resp)

NextShort ==
    \/ \E newCode \in Docs : HandleLatexCodeChange(newCode)
    \/ HandleCompileAndDownload
    \/ \E e \in FetchErrors : SubmitThrows(e)
    \/ pc = "submit" /\ \E resp \in ShortResponses : SubmitResponds(resp)
    \/ \E e \in FetchErrors : FetchThrows(e)
    \/ pc = "fetch" /\ \E resp \in ShortResponses : FetchResponds(resp)
    \/ CompileSettles

\* The remote side answers every request or the fetch() rejects, and the
\* event loop runs the continuation of a settled promise.
FairSpec ==
    Init /\ [][NextShort]_vars /\ WF_vars(NetworkStepShort) /\ WF_vars(CompileSettles)

\* ------------------------------------------------------- time passing
\* Both fetch() calls are awaited without an AbortSignal or a timer: while
\* the request is unanswered, time passes and the call goes on waiting.
DeadlinePasses ==
    /\ pc \in {"submit", "fetch"}
    /\ ~waited
    /\ waited' = TRUE
    /\ UNCHANGED <<impl, uiVars, calls, appVars, pc, net, submitResp, fetchResp, settled,
                   nSubmit, nFetch>>

NextTimed ==
    \/ NextShort
    \/ DeadlinePasses

\* Time passes and the event loop runs the continuation of a settled
\* promise; the remote side is free never to answer.
TimedSpec ==
    Init /\ [][NextTimed]_vars /\ WF_vars(DeadlinePasses) /\ WF_vars(CompileSettles)

\* ------------------------------------------- calls made side by side
\* compileLatexToPdf is an exported async function: any number of callers
\* may have a call running, each with its own locals; the steps of the calls
\* interleave at the awaits.  The remote side answers these calls with
\* one response of every kind the client tells apart.
ConcResponses ==
    {[status |-> 200, ct |-> Header(<<"application/pdf">>), body |-> TextBody(<<"%PDF">>)],
     [status |-> 200, ct |-> Header(<<"text/plain">>), body |-> TextBody(<<"log">>)],
     [status |-> 200, ct |-> Header(<<"text/html">>), body |-> TextBody(<<"Proxy">>)],
     [status |-> 200, ct |-> NoHeader, body |-> TextBody(<<"%PDF">>)],
     [status |-> 404, ct |-> Header(<<"text/plain">>), body |-> TextBody(<<"log">>)],
     [status |-> 502, ct |-> NoHeader, body |-> Unreadable],
     [status |-> 200, ct |-> Header(<<"application/json">>),
      body |-> JsonBody(Env("error", <<"Q", "Q">>, ""))],
     [status |-> 200, ct |-> Header(<<"application/json">>),
      body |-> JsonBody(Env("success", <<>>, "f1"))],
     [status |-> 200, ct |-> Header(<<"application/json">>),
      body |-> JsonBody(Env("other", <<>>, ""))]}

\* Another caller calls compileLatexToPdf(code): the call runs to its
\* submit fetch().
CallStarts(i, code) ==
    /\ calls[i].pc = "idle"
    /\ calls' = [calls EXCEPT ![i] = [IdleCall EXCEPT !.pc = "submit", !.code = code]]
    /\ UNCHANGED <<impl, uiVars, waited, appVars, pc, net, submitResp, fetchResp, settled,
                   nSubmit, nFetch>>

\* The submit fetch() of call i rejects.
CallSubmitThrows(i, e) ==
    /\ calls[i].pc = "submit"
    /\ calls' = [calls EXCEPT ![i].threw = e, ![i].settled = SubmitThrown(e),
                              ![i].pc = "done"]
    /\ UNCHANGED <<impl, uiVars, waited, appVars, pc, net, submitResp, fetchResp, settled,
                   nSubmit, nFetch>>

\* CallSubmitResponds with the response kept in a variable of the module
\* instead of a local: the call classifies what another call stored there.
CallSubmitResponds_SharedResponse(i, resp) ==
    /\ calls[i].pc = "submit"
    /\ LET others == {j \in CallIds : j # i /\ calls[j].submitResp # None}
           seen == IF others = {} THEN resp
                   ELSE calls[CHOOSE j \in others : TRUE].submitResp
           out == IF impl = "latexonline" THEN DirectOutcome(seen)
                  ELSE RtexSubmitOutcome(seen)
       IN  calls' = [calls EXCEPT
                       ![i].submitResp = resp,
                       ![i].settled = out,
                       ![i].nFetch = IF out = Pending THEN 1 ELSE 0,
                       ![i].pc = IF out = Pending THEN "fetch" ELSE "done"]
    /\ UNCHANGED <<impl, uiVars, waited, appVars, pc, net, submitResp, fetchResp, settled,
                   nSubmit, nFetch>>

\* CallSubmitResponds with a cache of outcomes keyed by the document: the
\* outcome of a settled call for the same document is reused.
CallSubmitResponds_CachedByDocument(i, resp) ==
    /\ calls[i].pc = "submit"
    /\ LET hits == {j \in CallIds : j # i /\ calls[j].pc = "done"
                                    /\ calls[j].code = calls[i].code}
           out == IF hits # {} THEN calls[CHOOSE j \in hits : TRUE].settled
                  ELSE IF impl = "latexonline" THEN DirectOutcome(resp)
                  ELSE RtexSubmitOutcome(resp)
       IN  calls' = [calls EXCEPT
                       ![i].submitResp = resp,
                       ![i].settled = out,
                       ![i].nFetch = IF out = Pending THEN 1 ELSE 0,
                       ![i].pc = IF out = Pending THEN "fetch" ELSE "done"]
    /\ UNCHANGED <<impl, uiVars, waited, appVars, pc, net, submitResp, fetchResp, settled,
                   nSubmit, nFetch>>

\* The submit fetch() of call i resolves with a response.
CallSubmitResponds(i, resp) ==
    /\ calls[i].pc = "submit"
    /\ LET out == IF impl = "latexonline" THEN DirectOutcome(resp)
                  ELSE RtexSubmitOutcome(resp)
       IN  calls' = [calls EXCEPT
                       ![i].submitResp = resp,
                       ![i].settled = out,
                       ![i].nFetch = IF out = Pending THEN 1 ELSE 0,
                       ![i].pc = IF out = Pending THEN "fetch" ELSE "done"]
    /\ UNCHANGED <<impl, uiVars, waited, appVars, pc, net, submitResp, fetchResp, settled,
                   nSubmit, nFetch>>

\* The download fetch() of call i rejects.
CallFetchThrows(i, e) ==
    /\ calls[i].pc = "fetch"
    /\ calls' = [calls EXCEPT ![i].threw = e, ![i].settled = FetchThrown(e),
                              ![i].pc = "done"]
    /\ UNCHANGED <<impl, uiVars, waited, appVars, pc, net, submitResp, fetchResp, settled,
                   nSubmit, nFetch>>

\* The download fetch() of call i resolves with a response.
CallFetchResponds(i, resp) ==
    /\ calls[i].pc = "fetch"
    /\ calls' = [calls EXCEPT ![i].fetchResp = resp,
                              ![i].settled = RtexFetchOutcome(resp),
                              ![i].pc = "done"]
    /\ UNCHANGED <<impl, uiVars, waited, appVars, pc, net, submitResp, fetchResp, settled,
                   nSubmit, nFetch>>

\* The caller of call i has taken its outcome; the locals are gone.
CallReturns(i) ==
    /\ calls[i].pc = "done"
    /\ calls' = [calls EXCEPT ![i] = IdleCall]
    /\ UNCHANGED <<impl, uiVars, waited, appVars, pc, net, submitResp, fetchResp, settled,
                   nSubmit, nFetch>>

NextConc ==
    \E i \in CallIds :
        \/ \E code \in Docs : CallStarts(i, code)
        \/ \E e \in FetchErrors : CallSubmitThrows(i, e)
        \/ calls[i].pc = "submit" /\ \E resp \in ConcResponses : CallSubmitResponds(i, resp)
        \/ \E e \in FetchErrors : CallFetchThrows(i, e)
        \/ calls[i].pc = "fetch" /\ \E resp \in ConcResponses : CallFetchResponds(i, resp)
        \/ CallReturns(i)

ConcSpec == Init /\ [][NextConc]_vars

\* ------------------------------------------------------ geminiService.ts
\* A message is the sequence of its parts: startsWith looks at the first
\* part, includes at every part.
Error(msg) == [tag |-> "error", msg |-> msg]
KeyMissingMsg == <<"API_KEY_MISSING:", "The Gemini API key is not configured">>
EmptyResponseMsg == <<"Received empty response from AI model">>

\* message.startsWith('API_KEY_MISSING:')
StartsWithKeyMissing(msg) == msg # <<>> /\ msg[1] = "API_KEY_MISSING:"

\* message.includes(word)
MsgIncludes(msg, word) == \E i \in 1..Len(msg) : msg[i] = word

\* message.toLowerCase().includes(word)
MsgLower(part) == IF part = "Quota" THEN "quota" ELSE part
MsgIncludesLower(msg, word) == \E i \in 1..Len(msg) : MsgLower(msg[i]) = word

\* ensureApiKey: !process.env.API_KEY throws.
EnsureApiKeyThrows == apiKey = ""

\* What generateContent gives back: a response whose text is a string or
\* undefined, or a thrown error with its message.
Text(t) == [tag |-> "text", text |-> t, msg |-> <<>>]
UndefinedText == [tag |-> "undefined", text |-> <<>>, msg |-> <<>>]
Throws(msg) == [tag |-> "throw", text |-> <<>>, msg |-> msg]

\* cleanLatexResponse: the trimmed text, without its code fence when the
\* fence holds something.  FENCE stands for three backquotes, FENCElatex
\* and FENCEtex for an opening fence with its language.
CleanLatexResponse(response) ==
    IF response.tag = "undefined" \/ Trim(response.text) = <<>>
    THEN Reject(Error(EmptyResponseMsg))
    ELSE LET finalLatexCode == Trim(response.text)
             n == Len(finalLatexCode)
             match == n >= 2 /\ finalLatexCode[1] \in {"FENCE", "FENCElatex", "FENCEtex"}
                      /\ finalLatexCode[n] = "FENCE"
             group == IF match THEN Trim(SubSeq(finalLatexCode, 2, n - 1)) ELSE <<>>
         IN  Resolve(Text(IF match /\ group # <<>> THEN group ELSE finalLatexCode))

\* handleApiError: the message of the error it throws.
HandleApiError(msg) ==
    IF StartsWithKeyMissing(msg) THEN Error(msg)
    ELSE IF MsgIncludes(msg, "API key not valid") THEN Error(<<"Invalid API Key">>)
    ELSE IF MsgIncludesLower(msg, "quota") THEN Error(<<"API Quota Exceeded">>)
    ELSE IF \E word \in {"model_error", "candidate error", "safety settings", "blocked"} :
                MsgIncludesLower(msg, word)
    THEN Error(<<"The AI model encountered an issue processing your request">>)
    ELSE Error(<<"AI generation failed: ">>
               \o (IF msg = <<>> THEN <<"Unknown error during API call">> ELSE msg))

\* The body of the five service functions after ensureApiKey: the try around
\* generateContent and cleanLatexResponse, its catch calling handleApiError.
ServiceOutcome(response) ==
    IF response.tag = "throw" THEN Reject(HandleApiError(response.msg))
    ELSE LET cleaned == CleanLatexResponse(response)
         IN  IF cleaned.thrown # None THEN Reject(HandleApiError(cleaned.thrown.msg))
             ELSE cleaned

\* The texts the model answers with and the errors the SDK throws.
RawTexts ==
    {<<>>, <<" ">>, <<"X">>, <<" ", "X", " ">>, <<"FENCElatex", "X", "FENCE">>, <<"FENCE", "FENCE">>}
SdkErrors ==
    {<<>>, <<"timeout">>, <<"API key not valid">>, <<"Quota">>, <<"blocked">>,
     <<"API key not valid", "quota">>, <<"API_KEY_MISSING:", "quota">>}
ModelResponses ==
    {Text(t) : t \in RawTexts} \cup {UndefinedText} \cup {Throws(m) : m \in SdkErrors}

\* ------------------------------------------- App: the AI operations
\* The isLoading prop App hands to InputMethodSelector, PromptControls,
\* ImageInputArea and PdfInputArea, and LatexCodeView to FormatToggle.
ControlsBusy == isLoading \/ isCompiling

\* The isTextSelected prop: !!selectedText && selectedText.length > 0
IsTextSelected == selection.present /\ Len(selection.text) > 0

\* !text.trim()
Blank(text) == Trim(text) = <<>>

\* BeginAi without setActiveActionType.
BeginAi_NoActionType(op, by, fmt) ==
    /\ isLoading' = TRUE
    /\ error' = None
    /\ compileError' = None
    /\ aiCall' = [op |-> op, by |-> by, code |-> latexCode, sel |-> selection,
                  format |-> fmt, sent |-> IF EnsureApiKeyThrows THEN 0 ELSE 1]
    /\ UNCHANGED activeActionType

\* The synchronous head of an AI handler: setActiveActionType,
\* setIsLoading(true), clearErrors(), and the call of the service function up
\* to its first await.  The closure keeps the latexCode and the selection of
\* the render the handler was made in; ensureApiKey throws before any request.
BeginAi(op, by, fmt) ==
    /\ activeActionType' = op
    /\ isLoading' = TRUE
    /\ error' = None
    /\ compileError' = None
    /\ aiCall' = [op |-> op, by |-> by, code |-> latexCode, sel |-> selection,
                  format |-> fmt, sent |-> IF EnsureApiKeyThrows THEN 0 ELSE 1]

\* A handler that returns after setError(msg).
OnlySetsError(msg) ==
    /\ error' = Error(msg)
    /\ UNCHANGED <<latexCode, isLoading, isCompiling, compileError, outputFormat, userPrompt,
                   activeActionType, selection, pastedImage, selectedPdf, aiCall>>

\* What every step of App leaves alone: the compile call, the side-by-side
\* calls and the voice hook.
AppFrame ==
    UNCHANGED <<impl, apiKey, calls, waited, pc, net, submitResp, fetchResp, settled, nSubmit,
                nFetch, downloads, isListening, voiceError, recognition>>

\* handleFormatChange switching the format before the conversion answers.
HandleFormatChange_Optimistic(newFormat) ==
    /\ ~(newFormat = outputFormat \/ isLoading \/ isCompiling)
    /\ BeginAi("convert", "click", newFormat)
    /\ selection' = NoSelection
    /\ outputFormat' = newFormat
    /\ UNCHANGED <<latexCode, isCompiling, userPrompt, pastedImage, selectedPdf>>
    /\ AppFrame

\* App.handleFormatChange up to its await.
HandleFormatChange(newFormat) ==
    /\ ~(newFormat = outputFormat \/ isLoading \/ isCompiling)
    /\ BeginAi("convert", "click", newFormat)
    /\ selection' = NoSelection
    /\ UNCHANGED <<latexCode, isCompiling, outputFormat, userPrompt, pastedImage, selectedPdf>>
    /\ AppFrame

\* App.handleUpdatePresentation up to its await; by is the event that called
\* it, the button or the Enter key.
HandleUpdatePresentation(by) ==
    /\ IF Blank(userPrompt)
       THEN OnlySetsError(<<"Please enter a prompt to update the presentation.">>)
       ELSE /\ BeginAi("update", by, outputFormat)
            /\ selection' = NoSelection
            /\ UNCHANGED <<latexCode, isCompiling, outputFormat, userPrompt, pastedImage,
                           selectedPdf>>
    /\ AppFrame

\* App.handleModifySelectedCode up to its await.
HandleModifySelectedCode ==
    /\ IF ~IsTextSelected
       THEN OnlySetsError(<<"No text selected to modify.">>)
       ELSE IF Blank(userPrompt)
       THEN OnlySetsError(<<"Please enter a prompt describing how to modify the selected text.">>)
       ELSE /\ BeginAi("modify", "click", outputFormat)
            /\ UNCHANGED <<latexCode, isCompiling, outputFormat, userPrompt, selection,
                           pastedImage, selectedPdf>>
    /\ AppFrame

\* The files the user picks: type and the data URL readAsDataURL makes of
\* them; an empty file has nothing after the comma.
Files ==
    {[type |-> "image/png", url |-> <<"data:image/png;base64", "QUJD">>],
     [type |-> "image/png", url |-> <<"data:image/png;base64", "">>],
     [type |-> "application/pdf", url |-> <<"data:application/pdf;base64", "QUJD">>]}

\* file.type.startsWith('image/')
IsImageType(type) == type \in {"image/png"}

\* dataUrl.split(',')[1]: empty or undefined when nothing follows the comma.
Base64Data(url) == IF Len(url) >= 2 THEN url[2] ELSE ""

\* App.handleImageFileSelected with the reader's onloadend.
HandleImageFileSelected(file) ==
    /\ IF ~IsImageType(file.type)
       THEN OnlySetsError(<<"Invalid file type. Please select an image.">>)
       ELSE /\ error' = None
            /\ pastedImage' = DataUrl(file.url)
            /\ UNCHANGED <<latexCode, isLoading, isCompiling, compileError, outputFormat,
                           userPrompt, activeActionType, selection, selectedPdf, aiCall>>
    /\ AppFrame

\* App.handlePdfFileSelected with the reader's onloadend.
HandlePdfFileSelected(file) ==
    /\ IF file.type # "application/pdf"
       THEN OnlySetsError(<<"Invalid file type. Please select a PDF file.">>)
       ELSE /\ error' = None
            /\ selectedPdf' = DataUrl(file.url)
            /\ UNCHANGED <<latexCode, isLoading, isCompiling, compileError, outputFormat,
                           userPrompt, activeActionType, selection, pastedImage, aiCall>>
    /\ AppFrame

\* A handler whose try throws before its first await: the catch and the
\* finally run in the same step as the head, and React renders their sum.
ThrowsBeforeAwait(msg) ==
    /\ activeActionType' = "null"
    /\ isLoading' = FALSE
    /\ error' = Error(msg)
    /\ compileError' = None
    /\ selection' = NoSelection
    /\ UNCHANGED <<latexCode, isCompiling, outputFormat, userPrompt, pastedImage, selectedPdf,
                   aiCall>>

\* App.handleGenerateFrameFromImage up to its await.
HandleGenerateFrameFromImage ==
    /\ IF ~pastedImage.present
       THEN OnlySetsError(<<"Please provide an image.">>)
       ELSE IF Base64Data(pastedImage.url) = ""
       THEN ThrowsBeforeAwait(<<"Failed to generate from image: ", "Invalid image data format.">>)
       ELSE /\ BeginAi("generateImage", "click", outputFormat)
            /\ selection' = NoSelection
            /\ UNCHANGED <<latexCode, isCompiling, outputFormat, userPrompt, pastedImage,
                           selectedPdf>>
    /\ AppFrame

\* App.handleGenerateFromPdf up to its await.
HandleGenerateFromPdf ==
    /\ IF ~selectedPdf.present
       THEN OnlySetsError(<<"Please select a PDF file.">>)
       ELSE IF Base64Data(selectedPdf.url) = ""
       THEN ThrowsBeforeAwait(<<"Failed to generate from PDF: ", "Invalid PDF data format.">>)
       ELSE /\ BeginAi("generatePdf", "click", outputFormat)
            /\ selection' = NoSelection
            /\ UNCHANGED <<latexCode, isCompiling, outputFormat, userPrompt, pastedImage,
                           selectedPdf>>
    /\ AppFrame

\* The wording each handler's catch puts before the message.
FailedTo(op) ==
    IF op = "convert" THEN "Failed to convert format: "
    ELSE IF op = "update" THEN "Failed to update presentation: "
    ELSE IF op = "modify" THEN "Failed to modify selected code: "
    ELSE IF op = "generateImage" THEN "Failed to generate from image: "
    ELSE "Failed to generate from PDF: "

\* The catch of an AI handler wrapping every message.
CaughtError_AlwaysPrefixes(op, msg) ==
    Error(<<FailedTo(op)>> \o (IF msg = <<>> THEN <<"Unknown error">> ELSE msg))

\* The catch of an AI handler: the message it hands to setError.
CaughtError(op, msg) ==
    IF StartsWithKeyMissing(msg) THEN Error(msg)
    ELSE Error(<<FailedTo(op)>> \o (IF msg = <<>> THEN <<"Unknown error">> ELSE msg))

\* handleModifySelectedCode splicing the snippet into the document of the
\* render it was made in.
Splice(code, sel, snippet) ==
    SubSeq(code, 1, sel.start) \o snippet \o SubSeq(code, sel.end + 1, Len(code))

\* AiCompletes with the flags reset at the end of the try instead of in a
\* finally: a failure leaves them set.
AiCompletes_NoFinally(outcome) ==
    /\ aiCall.op # "null"
    /\ IF outcome.returned # None
       THEN LET result == outcome.returned.text
            IN  /\ latexCode' = IF aiCall.op = "modify"
                                THEN Splice(aiCall.code, aiCall.sel, result)
                                ELSE result
                /\ outputFormat' = IF aiCall.op = "convert" THEN aiCall.format ELSE outputFormat
                /\ userPrompt' = IF aiCall.op \in {"update", "modify"} THEN <<>> ELSE userPrompt
                /\ selection' = IF aiCall.op = "modify" THEN NoSelection ELSE selection
                /\ pastedImage' = IF aiCall.op = "generateImage" THEN NoFile ELSE pastedImage
                /\ selectedPdf' = IF aiCall.op = "generatePdf" THEN NoFile ELSE selectedPdf
                /\ isLoading' = FALSE
                /\ activeActionType' = "null"
                /\ UNCHANGED error
       ELSE /\ error' = CaughtError(aiCall.op, outcome.thrown.msg)
            /\ UNCHANGED <<latexCode, outputFormat, userPrompt, selection, pastedImage,
                           selectedPdf, isLoading, activeActionType>>
    /\ aiCall' = NoCall
    /\ UNCHANGED <<isCompiling, compileError>>
    /\ AppFrame

\* The rest of an AI handler after its await: the success path of the try,
\* or the catch, then the finally.
AiCompletes(outcome) ==
    /\ aiCall.op # "null"
    /\ IF outcome.returned # None
       THEN LET result == outcome.returned.text
            IN  /\ latexCode' = IF aiCall.op = "modify"
                                THEN Splice(aiCall.code, aiCall.sel, result)
                                ELSE result
                /\ outputFormat' = IF aiCall.op = "convert" THEN aiCall.format ELSE outputFormat
                /\ userPrompt' = IF aiCall.op \in {"update", "modify"} THEN <<>> ELSE userPrompt
                /\ selection' = IF aiCall.op = "modify" THEN NoSelection ELSE selection
                /\ pastedImage' = IF aiCall.op = "generateImage" THEN NoFile ELSE pastedImage
                /\ selectedPdf' = IF aiCall.op = "generatePdf" THEN NoFile ELSE selectedPdf
                /\ UNCHANGED error
       ELSE /\ error' = CaughtError(aiCall.op, outcome.thrown.msg)
            /\ UNCHANGED <<latexCode, outputFormat, userPrompt, selection, pastedImage,
                           selectedPdf>>
    /\ isLoading' = FALSE
    /\ activeActionType' = "null"
    /\ aiCall' = NoCall
    /\ UNCHANGED <<isCompiling, compileError>>
    /\ AppFrame

\* ensureApiKey threw: the service function's promise is rejected without a
\* request, and the handler's catch runs in the next microtask.
AiKeyMissing ==
    /\ aiCall.op # "null" /\ aiCall.sent = 0
    /\ AiCompletes(Reject(Error(KeyMissingMsg)))

\* generateContent settles and the service function returns or throws.
AiResponds(response) ==
    /\ aiCall.op # "null" /\ aiCall.sent = 1
    /\ AiCompletes(ServiceOutcome(response))

\* No user event runs between a handler's head and its catch when the
\* service function threw before its first await.
MicrotaskPending == aiCall.op # "null" /\ aiCall.sent = 0

\* PromptControls: the textarea's onChange; the textarea is disabled while busy.
SetUserPrompt(text) ==
    /\ ~ControlsBusy
    /\ text # userPrompt
    /\ userPrompt' = text
    /\ UNCHANGED <<latexCode, isLoading, isCompiling, error, compileError, outputFormat,
                   activeActionType, selection, pastedImage, selectedPdf, aiCall>>
    /\ AppFrame

\* LatexCodeView.handleSelect and App.handleSelectionChange: the editor
\* reports the selected range of the text it shows.
HandleSelectionChange(start, end) ==
    /\ start <= end /\ end <= Len(latexCode)
    /\ selection' = Selection(SubSeq(latexCode, start + 1, end), start, end)
    /\ selection' # selection
    /\ UNCHANGED <<latexCode, isLoading, isCompiling, error, compileError, outputFormat,
                   userPrompt, activeActionType, pastedImage, selectedPdf, aiCall>>
    /\ AppFrame

\* PromptControls.handleKeyDown with Enter running the operation of the
\* selection.
HandleKeyDown_ModifiesSelection(key, shiftKey) ==
    IF key = "Enter" /\ ~shiftKey /\ ~ControlsBusy /\ ~Blank(userPrompt)
    THEN IF IsTextSelected THEN HandleModifySelectedCode ELSE HandleUpdatePresentation("Enter")
    ELSE UNCHANGED vars

\* PromptControls.handleKeyDown.
HandleKeyDown(key, shiftKey) ==
    IF key = "Enter" /\ ~shiftKey /\ ~ControlsBusy /\ ~Blank(userPrompt) /\ ~IsTextSelected
    THEN HandleUpdatePresentation("Enter")
    ELSE UNCHANGED vars

\* The Update button disabled on a blank prompt only.
UpdateButtonEnabled_IgnoresBusy == ~Blank(userPrompt)

\* PromptControls: the two buttons and their disabled attributes.
UpdateButtonEnabled == ~(ControlsBusy \/ Blank(userPrompt))
ModifyButtonEnabled == ~(ControlsBusy \/ Blank(userPrompt) \/ ~IsTextSelected)

\* FormatToggle: the button of the format shown is disabled, both while busy.
FormatButtonEnabled(format) == ~(ControlsBusy \/ format = outputFormat)

\* LatexCodeView: compileButtonDisabled
CompileButtonEnabled == ~(isLoading \/ isCompiling)

\* ImageInputArea and PdfInputArea get the same isLoading prop as
\* PromptControls; their Generate buttons are disabled while it is true.
GenerateButtonEnabled == ~ControlsBusy

\* What the user types, selects and presses, and what the remote sides
\* answer, in the runs of App.
Prompts == {<<>>, <<" ">>, <<"g">>}
SelRanges == {<<0, 1>>, <<1, 1>>}
Keys == {"Enter", "a"}
Formats == {"beamer", "note"}
AppModelResponses ==
    {Text(<<"FENCElatex", "X", "FENCE">>), Text(<<" ">>)}
AppResponses ==
    {[status |-> 200, ct |-> Header(<<"application/pdf">>), body |-> TextBody(<<"%PDF">>)],
     [status |-> 200, ct |-> Header(<<"application/json">>),
      body |-> JsonBody(Env("success", <<>>, "f1"))]}

\* The remote compile service answers or the fetch() rejects.
AppNetworkStep ==
    \/ SubmitThrows("FailedToFetch")
    \/ pc = "submit" /\ \E resp \in AppResponses : SubmitResponds(resp)
    \/ FetchThrows("FailedToFetch")
    \/ pc = "fetch" /\ \E resp \in AppResponses : FetchResponds(resp)

\* The model answers, or the handler's catch runs on a missing key.
AiStep ==
    \/ AiKeyMissing
    \/ aiCall.sent = 1 /\ \E response \in AppModelResponses : AiResponds(response)

\* App with all its controls: every event the page lets the user make, and
\* every completion.
AppNext ==
    \/ ~MicrotaskPending /\ \E newCode \in Docs : HandleLatexCodeChange(newCode)
    \/ ~MicrotaskPending /\ \E r \in SelRanges : HandleSelectionChange(r[1], r[2])
    \/ ~MicrotaskPending /\ \E text \in Prompts : SetUserPrompt(text)
    \/ ~MicrotaskPending /\ \E key \in Keys, shiftKey \in BOOLEAN : HandleKeyDown(key, shiftKey)
    \/ ~MicrotaskPending /\ UpdateButtonEnabled /\ HandleUpdatePresentation("click")
    \/ ~MicrotaskPending /\ ModifyButtonEnabled /\ HandleModifySelectedCode
    \/ ~MicrotaskPending /\ \E format \in Formats :
           FormatButtonEnabled(format) /\ HandleFormatChange(format)
    \/ ~MicrotaskPending /\ GenerateButtonEnabled
           /\ \E file \in Files : HandleImageFileSelected(file)
    \/ ~MicrotaskPending /\ GenerateButtonEnabled
           /\ \E file \in Files : HandlePdfFileSelected(file)
    \/ ~MicrotaskPending /\ GenerateButtonEnabled /\ HandleGenerateFrameFromImage
    \/ ~MicrotaskPending /\ GenerateButtonEnabled /\ HandleGenerateFromPdf
    \/ ~MicrotaskPending /\ CompileButtonEnabled /\ HandleCompileAndDownload
    \/ AppNetworkStep
    \/ CompileSettles
    \/ AiStep

\* The page in a build with or without the API key.
AppInit == \E key \in {"", "key"} : InitWith(key)

AppSpec == AppInit /\ [][AppNext]_vars

\* The same page with one prompt, one selection and one file of each kind.
AppNextShort ==
    \/ ~MicrotaskPending /\ HandleSelectionChange(0, 1)
    \/ ~MicrotaskPending /\ SetUserPrompt(<<"g">>)
    \/ ~MicrotaskPending /\ HandleKeyDown("Enter", FALSE)
    \/ ~MicrotaskPending /\ UpdateButtonEnabled /\ HandleUpdatePresentation("click")
    \/ ~MicrotaskPending /\ ModifyButtonEnabled /\ HandleModifySelectedCode
    \/ ~MicrotaskPending /\ \E format \in Formats :
           FormatButtonEnabled(format) /\ HandleFormatChange(format)
    \/ ~MicrotaskPending /\ GenerateButtonEnabled
           /\ \E file \in {f \in Files : Base64Data(f.url) # ""} : HandleImageFileSelected(file)
    \/ ~MicrotaskPending /\ GenerateButtonEnabled
           /\ \E file \in {f \in Files : Base64Data(f.url) # ""} : HandlePdfFileSelected(file)
    \/ ~MicrotaskPending /\ GenerateButtonEnabled /\ HandleGenerateFrameFromImage
    \/ ~MicrotaskPending /\ GenerateButtonEnabled /\ HandleGenerateFromPdf
    \/ ~MicrotaskPending /\ CompileButtonEnabled /\ HandleCompileAndDownload
    \/ AppNetworkStep
    \/ CompileSettles
    \/ AiStep

\* The remote sides answer every request or the call rejects, and the
\* event loop runs the continuation of a settled promise.
AppFairSpec ==
    AppInit /\ [][AppNextShort]_vars
    /\ WF_vars(AppNetworkStep) /\ WF_vars(CompileSettles) /\ WF_vars(AiStep)

\* ------------------------------------------- useVoiceRecognition, PromptControls
\* The browser's SpeechRecognition object is idle, started, stopping (stop()
\* was called, its end event is still to come) or errored (its error event
\* has come, its end event is still to come); start() throws an
\* InvalidStateError unless the object is idle.
VoiceFrame ==
    UNCHANGED <<impl, apiKey, calls, waited, appVars, pc, net, submitResp, fetchResp, settled,
                nSubmit, nFetch, outputFormat, activeActionType, selection, pastedImage,
                selectedPdf, aiCall>>

\* startListening setting isListening whether or not start() threw.
StartListening_IgnoresThrow ==
    /\ IF ~isListening
       THEN /\ isListening' = TRUE
            /\ voiceError' = "null"
            /\ recognition' = IF recognition = "idle" THEN "started" ELSE recognition
       ELSE UNCHANGED <<isListening, voiceError, recognition>>
    /\ UNCHANGED userPrompt
    /\ VoiceFrame

\* useVoiceRecognition.startListening
StartListening ==
    /\ IF ~isListening
       THEN IF recognition = "idle"
            THEN /\ recognition' = "started"
                 /\ isListening' = TRUE
                 /\ voiceError' = "null"
            ELSE /\ voiceError' = "Could not start recognition"
                 /\ isListening' = FALSE
                 /\ UNCHANGED recognition
       ELSE UNCHANGED <<isListening, voiceError, recognition>>
    /\ UNCHANGED userPrompt
    /\ VoiceFrame

\* useVoiceRecognition.stopListening
StopListening ==
    /\ IF isListening
       THEN /\ recognition' = IF recognition = "started" THEN "stopping" ELSE recognition
            /\ isListening' = FALSE
       ELSE UNCHANGED <<isListening, recognition>>
    /\ UNCHANGED <<voiceError, userPrompt>>
    /\ VoiceFrame

\* PromptControls.handleMicToggle
HandleMicToggle ==
    IF isListening THEN StopListening ELSE StartListening

\* recognition.onresult: the final results joined, each followed by a
\* space, then trimmed.
RECURSIVE FinalTranscript(_)
FinalTranscript(results) ==
    IF results = <<>> THEN <<>>
    ELSE (IF Head(results).isFinal THEN Head(results).transcript \o <<" ">> ELSE <<>>)
         \o FinalTranscript(Tail(results))

\* PromptControls.handleTranscriptUpdate
HandleTranscriptUpdate(prev, transcript) ==
    Trim(IF prev # <<>> THEN prev \o <<" ">> \o transcript ELSE transcript)

\* recognition.onresult
OnResult(results) ==
    /\ recognition \in {"started", "stopping"}
    /\ LET finalTranscript == FinalTranscript(results)
       IN  IF Trim(finalTranscript) # <<>>
           THEN /\ userPrompt' = HandleTranscriptUpdate(userPrompt, Trim(finalTranscript))
                /\ Len(userPrompt') <= MaxPromptLen
           ELSE UNCHANGED userPrompt
    /\ UNCHANGED <<isListening, voiceError, recognition>>
    /\ VoiceFrame

\* recognition.onerror
OnError(kind) ==
    /\ recognition \in {"started", "stopping"}
    /\ recognition' = "errored"
    /\ voiceError' = kind
    /\ isListening' = FALSE
    /\ UNCHANGED userPrompt
    /\ VoiceFrame

\* recognition.onend
OnEnd ==
    /\ recognition \in {"started", "stopping", "errored"}
    /\ recognition' = "idle"
    /\ isListening' = FALSE
    /\ UNCHANGED <<voiceError, userPrompt>>
    /\ VoiceFrame

\* What the recognizer hears and how it fails.
SpeechResults ==
    {<<[isFinal |-> TRUE, transcript |-> <<"hi">>]>>,
     <<[isFinal |-> TRUE, transcript |-> <<"yo">>]>>,
     <<[isFinal |-> FALSE, transcript |-> <<"hi">>]>>,
     <<[isFinal |-> TRUE, transcript |-> <<" ">>]>>}
SpeechErrors ==
    {"Speech recognition error: no-speech", "Speech recognition error: not-allowed"}

\* The prompt box with its microphone: the button, the hook's two
\* functions, typing, and the recognizer's events.
VoiceNext ==
    \/ HandleMicToggle
    \/ StartListening
    \/ StopListening
    \/ \E results \in SpeechResults : OnResult(results)
    \/ \E kind \in SpeechErrors : OnError(kind)
    \/ OnEnd

VoiceSpec == Init /\ [][VoiceNext]_vars

TypeOK ==
    /\ impl \in {"latexonline", "rtex"}
    /\ latexCode \in Docs
    /\ isLoading \in BOOLEAN
    /\ isCompiling \in BOOLEAN
    /\ pc \in {"idle", "submit", "fetch", "done"}
    /\ nSubmit \in 0..1
    /\ nFetch \in 0..1
    /\ waited \in BOOLEAN
    /\ \A i \in CallIds : calls[i].pc \in {"idle", "submit", "fetch", "done"}

\* ------------------------------------------------ vocabulary of the claims
ThrownMsg == IF settled.thrown = None THEN "" ELSE settled.thrown.msg
Succeeded == pc = "done" /\ settled.returned # None
Failed == pc = "done" /\ settled.thrown # None

\* The error kinds of the design, by the wording of the messages thrown.
TransportUnreachableMsgs ==
    {"NetworkErrorCouldNotConnect", "UnexpectedErrorContactingService",
     "NetworkErrorCouldNotDownload", "UnexpectedErrorDownloading"}
StatusErrorMsgs ==
    {"ServiceOrProxyReturnedError", "ServiceOrProxyDown", "ServiceReturnedError",
     "FailedToDownloadPdf"}
RelayFailureMsgs == {"ProxyReturnedErrorPage", "ProxyPageInsteadOfPdf"}
ProtocolViolationMsgs ==
    {"UnexpectedResponse", "UnexpectedEnvelope", "DownloadedFileNotPdf",
     "FailedToParseResponse", "TypeErrorReadingNull"}
CompilationFailedMsgs == {"LatexCompilationFailed"}

Readable(resp) == resp.body.kind # "unreadable"
HasPdfSignature(bytes) == Len(bytes) > 0 /\ bytes[1] = "%PDF"
ProxyWords(text) == IncludesLower(text, "allorigins") \/ IncludesLower(text, "proxy")

\* --------------------------------------------------------------------- C1
\* C1: every call of compileLatexToPdf, whatever the remote side answers or
\* throws at either phase, reaches its end with exactly one outcome, a
\* resolved Blob or one thrown Error, and has none before; App's
\* handleCompileAndDownload receives that outcome: a thrown Error becomes
\* compileError, a Blob becomes the one download, and isCompiling is released.
C1_OneOutcomePerCall ==
    /\ [](pc = "done" => ~((settled.returned # None) <=> (settled.thrown # None)))
    /\ [](pc # "done" => settled = Pending)
    /\ [][(pc = "done" /\ pc' # "done") =>
            /\ isCompiling' = FALSE
            /\ IF settled.thrown # None
               THEN compileError' = settled.thrown /\ downloads' = downloads
               ELSE downloads' = <<settled.returned>> /\ compileError' = None]_vars
    /\ (pc \in {"submit", "fetch"}) ~> (pc = "done")
    /\ (pc = "done") ~> (pc = "idle" /\ ~isCompiling)

\* A call of the two-phase client whose download response could not be read.
C1_Witness ==
    /\ pc = "done" /\ impl = "rtex" /\ fetchResp # None
    /\ fetchResp.body.kind = "unreadable" /\ Ok(fetchResp.status)
    /\ settled.thrown # None

\* --------------------------------------------------------------------- C2
\* C2 as stated: a non-2xx response whose readable body is not empty, is not
\* a proxy error page and declares application/pdf or text/plain is not
\* turned into a status error but classified by content type and payload.
C2_StatusNeverAuthoritative ==
    (/\ pc = "done" /\ submitResp # None /\ fetchResp = None
     /\ ~Ok(submitResp.status) /\ Readable(submitResp)
     /\ BodyText(submitResp.body) # <<>> /\ ~ProxyWords(BodyText(submitResp.body))
     /\ (CtIncludes(submitResp.ct, "application/pdf") \/ CtIncludes(submitResp.ct, "text/plain")))
    => ThrownMsg \notin StatusErrorMsgs

\* C2 amended: a response is turned into a status error exactly when its
\* status is non-2xx, whatever its body and content type; a 2xx response is
\* never settled by its status.
C2_StatusErrorIffNotOk ==
    /\ (pc = "done" /\ submitResp # None /\ fetchResp = None) =>
          (ThrownMsg \in StatusErrorMsgs <=> ~Ok(submitResp.status))
    /\ (pc = "done" /\ fetchResp # None) =>
          (ThrownMsg \in StatusErrorMsgs <=> ~Ok(fetchResp.status))
    /\ (pc = "done" /\ ThrownMsg \in StatusErrorMsgs) =>
          settled.thrown.status = (IF fetchResp # None THEN fetchResp.status ELSE submitResp.status)

\* A 404 carrying a plain-text log ended as a status error.
C2_Witness ==
    /\ pc = "done" /\ submitResp # None /\ submitResp.status = 404
    /\ submitResp.ct = Header(<<"text/plain">>) /\ submitResp.body = TextBody(<<"log">>)
    /\ ThrownMsg \in StatusErrorMsgs

\* --------------------------------------------------------------------- C3
\* C3 as stated: every submit response of the single-phase client that
\* declares application/pdf and has a non-empty body ends the call in
\* Success with exactly the bytes of the body.
C3_PdfAnyStatus ==
    (/\ pc = "done" /\ impl = "latexonline" /\ submitResp # None
     /\ Readable(submitResp) /\ BodyText(submitResp.body) # <<>>
     /\ CtIncludes(submitResp.ct, "application/pdf"))
    => (settled.returned # None /\ settled.returned.bytes = BodyText(submitResp.body))

\* C3 amended: every 2xx submit response of the single-phase client that
\* declares application/pdf and has a non-empty body ends the call in
\* Success with exactly the bytes of the body.
C3_PdfReturnedUnmodified ==
    (/\ pc = "done" /\ impl = "latexonline" /\ submitResp # None
     /\ Ok(submitResp.status)
     /\ Readable(submitResp) /\ BodyText(submitResp.body) # <<>>
     /\ CtIncludes(submitResp.ct, "application/pdf"))
    => (settled.returned # None /\ settled.returned.bytes = BodyText(submitResp.body))

C3_Witness ==
    /\ pc = "done" /\ impl = "latexonline" /\ submitResp # None
    /\ Ok(submitResp.status) /\ CtIncludes(submitResp.ct, "application/pdf")
    /\ submitResp.body = TextBody(<<"%PDF", "log">>)
    /\ settled.returned # None

\* --------------------------------------------------------------------- C4
\* The response whose body ends the call.
FinalResp == IF impl = "latexonline" THEN submitResp ELSE fetchResp

\* A response that is itself a reference: a JSON envelope marked successful
\* that names a file.
IsReferenceResp(resp) ==
    /\ resp.ct = Header(<<"application/json">>)
    /\ JsonParses(resp.body) /\ ~resp.body.env.isNull
    /\ RtexIsReference(resp.body.env)

\* C4 as stated: after a Reference, a download response with content type
\* application/pdf ends the call in Success with the fetched bytes; a
\* download response that is itself a Reference ends it in a
\* ProtocolViolation failure; there is never a third request.
C4_TwoPhaseAnyStatus ==
    /\ (/\ pc = "done" /\ impl = "rtex" /\ fetchResp # None
        /\ Readable(fetchResp) /\ fetchResp.ct = Header(<<"application/pdf">>))
       => (settled.returned # None /\ settled.returned.bytes = BodyText(fetchResp.body))
    /\ (pc = "done" /\ impl = "rtex" /\ fetchResp # None /\ IsReferenceResp(fetchResp))
       => ThrownMsg \in ProtocolViolationMsgs
    /\ nFetch <= 1

\* C4 amended: after a Reference, a 2xx download response whose content type
\* is exactly application/pdf ends the call in Success with the fetched
\* bytes; a download response that is itself a Reference ends the call in
\* failure (the not-a-PDF failure when it is 2xx and its text holds neither
\* "proxy" nor "error"); the download is requested at most once and nothing
\* is in flight when the call ends.
C4_TwoPhase ==
    /\ (/\ pc = "done" /\ impl = "rtex" /\ fetchResp # None
        /\ Ok(fetchResp.status)
        /\ Readable(fetchResp) /\ fetchResp.ct = Header(<<"application/pdf">>))
       => /\ settled.returned # None
          /\ settled.returned.bytes = BodyText(fetchResp.body)
          /\ RtexSubmitOutcome(submitResp) = Pending
    /\ (pc = "done" /\ impl = "rtex" /\ fetchResp # None /\ IsReferenceResp(fetchResp))
       => /\ settled.thrown # None
          /\ (/\ Ok(fetchResp.status)
              /\ ~IncludesLower(BodyText(fetchResp.body), "proxy")
              /\ ~IncludesLower(BodyText(fetchResp.body), "error"))
             => ThrownMsg = "DownloadedFileNotPdf"
    /\ nFetch <= 1
    /\ (pc = "done" => net = {})

\* A second Reference came back from the download.
C4_Witness ==
    /\ pc = "done" /\ impl = "rtex" /\ fetchResp # None /\ IsReferenceResp(fetchResp)
    /\ Ok(fetchResp.status) /\ nFetch = 1 /\ ThrownMsg = "DownloadedFileNotPdf"

\* --------------------------------------------------------------------- C5
\* C5: when the submit fetch() rejects (Failed to fetch or any other error),
\* the call ends in a failure of the unreachable-transport kind and no
\* download request is made.
C5_SubmitExceptionNoFetch ==
    (pc = "done" /\ submitResp = None)
    => /\ ThrownMsg \in {"NetworkErrorCouldNotConnect", "UnexpectedErrorContactingService"}
       /\ ThrownMsg \in TransportUnreachableMsgs
       /\ settled.returned = None
       /\ nFetch = 0 /\ fetchResp = None /\ net = {}

C5_Witness ==
    /\ pc = "done" /\ submitResp = None /\ impl = "rtex"
    /\ ThrownMsg = "UnexpectedErrorContactingService"

\* --------------------------------------------------------------------- C6
\* C6: a running call has issued exactly one submit request and at most one
\* download request; the download is requested only after the submit
\* response was classified as a Reference; at most one request is in flight;
\* a request is never issued again: a submit only starts a call, a download
\* only follows the submit response, and a settled call issues nothing.
C6_RequestsPerCall ==
    /\ [](/\ (pc # "idle" => nSubmit = 1)
          /\ nFetch <= 1
          /\ Cardinality(net) <= 1
          /\ (pc = "submit" => nFetch = 0 /\ \A r \in net : r.phase = "submit")
          /\ (pc = "fetch" => nFetch = 1 /\ net # {} /\ \A r \in net : r.phase = "fetch")
          /\ (nFetch = 1 =>
                /\ impl = "rtex" /\ submitResp # None
                /\ Ok(submitResp.status) /\ JsonParses(submitResp.body)
                /\ RtexIsReference(submitResp.body.env))
          /\ (pc = "done" => net = {} /\ nSubmit + nFetch \in {1, 2}))
    /\ [][/\ (nSubmit' > nSubmit => pc = "idle")
          /\ (nFetch' > nFetch => pc = "submit" /\ submitResp' # None)
          /\ (net' # net /\ net' # {} => nSubmit' + nFetch' = nSubmit + nFetch + 1 \/ pc = "idle")
          /\ (pc \in {"fetch", "done"} => net' \subseteq net)]_vars

C6_Witness ==
    /\ pc = "fetch" /\ nSubmit = 1 /\ nFetch = 1
    /\ net = {RtexPdfRequest("f1")}

\* --------------------------------------------------------------------- C7
\* C7 as stated: a 2xx response of the single-phase client declaring
\* text/plain or text/html ends the call in the compilation failure that
\* carries the body as its log, whatever words the body contains.
C7_TextIsAlwaysLog ==
    (/\ pc = "done" /\ impl = "latexonline" /\ submitResp # None
     /\ Ok(submitResp.status) /\ Readable(submitResp)
     /\ ~CtIncludes(submitResp.ct, "application/pdf")
     /\ (CtIncludes(submitResp.ct, "text/plain") \/ CtIncludes(submitResp.ct, "text/html")))
    => /\ ThrownMsg \in CompilationFailedMsgs
       /\ settled.thrown.text = BodyText(submitResp.body)

\* C7 amended: such a response ends the call in the compilation failure that
\* carries the body as its log unless the body contains "allorigins" or
\* "proxy" in any letter case; then the call ends in the proxy-error-page
\* failure, which carries no log.
C7_TextIsLogUnlessProxyWords ==
    (/\ pc = "done" /\ impl = "latexonline" /\ submitResp # None
     /\ Ok(submitResp.status) /\ Readable(submitResp)
     /\ ~CtIncludes(submitResp.ct, "application/pdf")
     /\ (CtIncludes(submitResp.ct, "text/plain") \/ CtIncludes(submitResp.ct, "text/html")))
    => IF ProxyWords(BodyText(submitResp.body))
       THEN ThrownMsg = "ProxyReturnedErrorPage" /\ settled.thrown.text = <<>>
       ELSE /\ ThrownMsg \in CompilationFailedMsgs
            /\ settled.thrown.text = BodyText(submitResp.body)

\* A log whose second word is "Proxy" was reported as a proxy error page.
C7_Witness ==
    /\ pc = "done" /\ impl = "latexonline" /\ submitResp # None
    /\ submitResp.status = 200 /\ submitResp.ct = Header(<<"text/plain">>)
    /\ submitResp.body = TextBody(<<"log", "Proxy">>)
    /\ ThrownMsg = "ProxyReturnedErrorPage"

\* --------------------------------------------------------------------- C8
\* C8: when the envelope reports an error and its log is not valid base64,
\* the call ends in the compilation failure carrying the fixed
\* could-not-decode placeholder; the decode failure is not what is thrown
\* and no download is requested.
C8_UndecodableLogPlaceholder ==
    (/\ pc = "done" /\ impl = "rtex" /\ submitResp # None
     /\ Ok(submitResp.status) /\ JsonParses(submitResp.body)
     /\ ~submitResp.body.env.isNull /\ submitResp.body.env.status = "error"
     /\ submitResp.body.env.log # <<>> /\ ~AtobValid(submitResp.body.env.log))
    => /\ ThrownMsg \in CompilationFailedMsgs
       /\ settled.thrown.note = "CouldNotDecodeLog"
       /\ settled.thrown.bytes = <<>>
       /\ nFetch = 0

\* A log of one base64 character (length 1 mod 4) could not be decoded.
C8_Witness ==
    /\ pc = "done" /\ impl = "rtex" /\ submitResp # None /\ Ok(submitResp.status)
    /\ submitResp.body = JsonBody(Env("error", <<"Q">>, ""))
    /\ ThrownMsg = "LatexCompilationFailed" /\ settled.thrown.note = "CouldNotDecodeLog"

\* --------------------------------------------------------------------- C9
DeclaresPdf(resp) ==
    IF impl = "latexonline" THEN resp.ct.present /\ CtIncludes(resp.ct, "application/pdf")
    ELSE BlobType(resp.ct) = <<"application/pdf">>

\* C9 as stated: a response declaring application/pdf whose bytes do not
\* start with the PDF signature, or whose body is empty, ends the call in a
\* ProtocolViolation failure; Success is returned only for bytes carrying
\* the signature.
C9_SignatureChecked ==
    /\ (/\ pc = "done" /\ FinalResp # None /\ Ok(FinalResp.status) /\ Readable(FinalResp)
        /\ DeclaresPdf(FinalResp) /\ ~HasPdfSignature(BodyText(FinalResp.body)))
       => ThrownMsg \in ProtocolViolationMsgs
    /\ Succeeded => HasPdfSignature(settled.returned.bytes)

\* C9 amended: a 2xx response declaring application/pdf ends the call in
\* Success with its body as received also when the bytes do not start with
\* the PDF signature or the body is empty; Success is returned only for a
\* 2xx response that declares application/pdf, and the blob returned is the
\* body of that response.
C9_SuccessIffDeclaredPdf ==
    /\ (/\ pc = "done" /\ FinalResp # None /\ Ok(FinalResp.status) /\ Readable(FinalResp)
        /\ DeclaresPdf(FinalResp) /\ ~HasPdfSignature(BodyText(FinalResp.body)))
       => Succeeded
    /\ Succeeded =>
          /\ FinalResp # None /\ Ok(FinalResp.status) /\ Readable(FinalResp)
          /\ DeclaresPdf(FinalResp)
          /\ settled.returned = Blob(FinalResp.body, FinalResp.ct)

\* An empty body declared application/pdf was returned as the artifact.
C9_Witness ==
    /\ pc = "done" /\ impl = "latexonline" /\ submitResp # None
    /\ submitResp.ct = Header(<<"application/pdf">>) /\ submitResp.body = TextBody(<<>>)
    /\ settled.returned # None /\ settled.returned.bytes = <<>>

\* -------------------------------------------------------------------- C10
\* No Content-Type header, or one naming none of the types the client tests for.
Unrecognized(ct) ==
    \/ ~ct.present
    \/ /\ ~CtIncludes(ct, "application/pdf")
       /\ ~CtIncludes(ct, "text/plain") /\ ~CtIncludes(ct, "text/html")

\* C10 as stated: without a recognized content type the body is sniffed: a
\* body starting with the PDF signature ends the call in Success, any other
\* in the compilation failure.
C10_SniffsSignature ==
    (/\ pc = "done" /\ impl = "latexonline" /\ submitResp # None
     /\ Ok(submitResp.status) /\ Readable(submitResp)
     /\ submitResp.ct \in {NoHeader, Header(<<"application/octet-stream">>)})
    => IF HasPdfSignature(BodyText(submitResp.body))
       THEN settled.returned # None /\ settled.returned.bytes = BodyText(submitResp.body)
       ELSE ThrownMsg \in CompilationFailedMsgs

\* C10 amended: without a recognized content type the body is not sniffed:
\* the call ends in the unexpected-response failure naming the content
\* type, whether or not the body starts with the PDF signature.
C10_UnrecognizedTypeFails ==
    (/\ pc = "done" /\ impl = "latexonline" /\ submitResp # None
     /\ Ok(submitResp.status) /\ Readable(submitResp)
     /\ Unrecognized(submitResp.ct))
    => /\ ThrownMsg = "UnexpectedResponse"
       /\ ThrownMsg \in ProtocolViolationMsgs
       /\ settled.thrown.type = BlobType(submitResp.ct)
       /\ settled.returned = None

\* A PDF sent without a Content-Type header was refused.
C10_Witness ==
    /\ pc = "done" /\ impl = "latexonline" /\ submitResp # None
    /\ submitResp.status = 200 /\ submitResp.ct = NoHeader
    /\ submitResp.body = TextBody(<<"%PDF", "log">>)
    /\ ThrownMsg = "UnexpectedResponse"

\* -------------------------------------------------------------------- C11
\* The class the call gave its submit response, read off what the call did
\* with it: returned a blob, asked for the download, threw the compilation
\* failure, or threw any other error.
ClassIsArtifact == nFetch = 0 /\ settled.returned # None
ClassIsReference == nFetch = 1
ClassIsDiagnostic == nFetch = 0 /\ ThrownMsg \in CompilationFailedMsgs
ClassIsCatchAll ==
    nFetch = 0 /\ settled.thrown # None /\ ThrownMsg \notin CompilationFailedMsgs
ClassCount ==
    (IF ClassIsArtifact THEN 1 ELSE 0) + (IF ClassIsReference THEN 1 ELSE 0)
    + (IF ClassIsDiagnostic THEN 1 ELSE 0) + (IF ClassIsCatchAll THEN 1 ELSE 0)
CatchAllMsgs ==
    StatusErrorMsgs \cup RelayFailureMsgs \cup ProtocolViolationMsgs \cup {"BodyReadFailed"}

\* C11: every submit response is given exactly one class: the blob is
\* returned (Artifact), the download is requested (Reference), the
\* compilation failure is thrown (Diagnostic), or another error is thrown
\* (the catch-all), and what is none of the first three is the catch-all
\* with one of its fixed messages; every download response ends the call
\* with a returned blob or an error of the catch-all, never a diagnostic.
C11_ClassificationTotal ==
    /\ (submitResp # None) =>
          /\ ClassCount = 1
          /\ (~ClassIsArtifact /\ ~ClassIsReference /\ ~ClassIsDiagnostic) =>
                (ClassIsCatchAll /\ ThrownMsg \in CatchAllMsgs)
          /\ (ClassIsReference <=> impl = "rtex" /\ RtexSubmitOutcome(submitResp) = Pending)
    /\ (fetchResp # None) =>
          /\ pc = "done"
          /\ ~((settled.returned # None) <=> (settled.thrown # None))
          /\ (settled.thrown # None => ThrownMsg \in CatchAllMsgs)

\* A 2xx response with a content type the client does not test for fell
\* into the catch-all.
C11_Witness ==
    /\ pc = "done" /\ impl = "latexonline" /\ submitResp # None
    /\ Ok(submitResp.status) /\ submitResp.ct = Header(<<"application/octet-stream">>)
    /\ ClassIsCatchAll /\ ThrownMsg = "UnexpectedResponse"

\* -------------------------------------------------------------------- C12
\* The outcome a call has when it runs alone with the same document, the
\* same responses and the same rejected fetch().
SoloOutcome(c) ==
    IF c.submitResp = None THEN SubmitThrown(c.threw)
    ELSE IF impl = "latexonline" THEN DirectOutcome(c.submitResp)
    ELSE IF RtexSubmitOutcome(c.submitResp) # Pending THEN RtexSubmitOutcome(c.submitResp)
    ELSE IF c.fetchResp = None THEN FetchThrown(c.threw)
    ELSE RtexFetchOutcome(c.fetchResp)

C13_DeadlineEndsCall ==
    (pc \in {"submit", "fetch"} /\ waited) ~> (pc \notin {"submit", "fetch"})

\* -------------------------------------------------------------------- C14
\* The text of the first <pre> region of an HTML page, tags stripped; the
\* empty text when the page has none.
FirstPreText(text) ==
    LET pres == {i \in 1..Len(text) : text[i] = "<pre>log</pre>"}
    IN  IF pres = {} THEN <<>> ELSE <<"log">>
HasPre(text) == \E i \in 1..Len(text) : text[i] = "<pre>log</pre>"

\* A 2xx text/html response of the single-phase client that is not a PDF
\* and has no proxy words.
HtmlDiagnostic ==
    /\ pc = "done" /\ impl = "latexonline" /\ submitResp # None
    /\ Ok(submitResp.status) /\ Readable(submitResp)
    /\ ~CtIncludes(submitResp.ct, "application/pdf")
    /\ CtIncludes(submitResp.ct, "text/html")
    /\ ~ProxyWords(BodyText(submitResp.body))

\* C14 as stated: for an HTML diagnostic the log of the compilation failure
\* is the text of the first <pre> region with the tags stripped, and a fixed
\* placeholder, never the markup, when the page has no <pre> region.
C14_PreRegionExtracted ==
    HtmlDiagnostic =>
        /\ ThrownMsg \in CompilationFailedMsgs
        /\ IF HasPre(BodyText(submitResp.body))
           THEN settled.thrown.text = FirstPreText(BodyText(submitResp.body))
           ELSE settled.thrown.text = <<>> /\ settled.thrown.note # ""

\* C14 amended: for an HTML diagnostic the log of the compilation failure is
\* the whole page as received, the markup of a <pre> region included; no
\* region is extracted and no placeholder stands in for a page without one.
C14_HtmlLogIsWholePage ==
    HtmlDiagnostic =>
        /\ ThrownMsg \in CompilationFailedMsgs
        /\ settled.thrown.text = BodyText(submitResp.body)
        /\ settled.thrown.note = ""
        /\ HasPre(BodyText(submitResp.body)) =>
              settled.thrown.text # FirstPreText(BodyText(submitResp.body))

\* A page holding a <pre> region was reported with its tags.
C14_Witness ==
    /\ HtmlDiagnostic
    /\ submitResp.body = TextBody(<<"error", "<pre>log</pre>">>)
    /\ settled.thrown.text = <<"error", "<pre>log</pre>">>

\* -------------------------------------------------------------------- C20
\* A 2xx text/plain response of the single-phase client that is not a PDF
\* and has no proxy words.
PlainTextDiagnostic ==
    /\ pc = "done" /\ impl = "latexonline" /\ submitResp # None
    /\ Ok(submitResp.status) /\ Readable(submitResp)
    /\ ~CtIncludes(submitResp.ct, "application/pdf")
    /\ CtIncludes(submitResp.ct, "text/plain")
    /\ ~ProxyWords(BodyText(submitResp.body))

\* C20 as stated: for a plain-text diagnostic the log of the compilation
\* failure is the body with the whitespace at its two ends removed and
\* nothing else changed.
C20_LogIsTrimmedBody ==
    PlainTextDiagnostic =>
        /\ ThrownMsg \in CompilationFailedMsgs
        /\ settled.thrown.text = Trim(BodyText(submitResp.body))

\* C20 amended: for a plain-text diagnostic the log of the compilation
\* failure is the body verbatim, the whitespace at its two ends included.
C20_LogIsVerbatimBody ==
    PlainTextDiagnostic =>
        /\ ThrownMsg \in CompilationFailedMsgs
        /\ settled.thrown.text = BodyText(submitResp.body)
        /\ Len(settled.thrown.text) = Len(submitResp.body.toks)
        /\ Trim(BodyText(submitResp.body)) # BodyText(submitResp.body) =>
              settled.thrown.text # Trim(BodyText(submitResp.body))

\* A log ending in a blank was reported with the blank.
C20_Witness ==
    /\ PlainTextDiagnostic
    /\ submitResp.body = TextBody(<<"log", " ">>)
    /\ settled.thrown.text = <<"log", " ">>

\* -------------------------------------------------------------------- C15
\* C15: for every plaintext log L that is not empty, when the envelope
\* reports an error with log = base64(L), the log text carried by the
\* compilation failure is exactly L.
C15_LogRoundTrip ==
    \A L \in SeqsUpTo(PlainChars, MaxPlainLen) :
        (/\ L # <<>>
         /\ pc = "done" /\ impl = "rtex" /\ submitResp # None
         /\ Ok(submitResp.status) /\ JsonParses(submitResp.body)
         /\ submitResp.body.env = Env("error", Btoa(Utf8Bytes(L)), ""))
        => /\ ThrownMsg \in CompilationFailedMsgs
           /\ settled.thrown.note = ""
           /\ settled.thrown.bytes = L

\* -------------------------------------------------------------------- C17
\* The two-phase client has received a 2xx submit response whose body is a
\* JSON object.
EnvelopeReceived ==
    /\ impl = "rtex" /\ submitResp # None
    /\ Ok(submitResp.status) /\ JsonParses(submitResp.body)
    /\ ~submitResp.body.env.isNull
SubmitEnv == submitResp.body.env

\* C17 as stated: an envelope whose status is erroneous ends the call in the
\* compilation failure; one marked successful that names a file makes the
\* call request the download, once; one marked successful that carries the
\* bytes inline (and names no file) ends the call in Success with those
\* bytes; any other envelope ends the call in failure without a download.
C17_InlineBytesReturned ==
    EnvelopeReceived =>
        IF SubmitEnv.status = "error"
        THEN pc = "done" /\ ThrownMsg \in CompilationFailedMsgs /\ nFetch = 0
        ELSE IF SubmitEnv.status = "success" /\ SubmitEnv.filename # ""
        THEN nFetch = 1
        ELSE IF SubmitEnv.status = "success" /\ SubmitEnv.inline # <<>>
        THEN /\ pc = "done" /\ nFetch = 0
             /\ settled.returned # None /\ settled.returned.bytes = SubmitEnv.inline
        ELSE pc = "done" /\ settled.thrown # None /\ nFetch = 0

\* C17 amended: an envelope whose status is erroneous ends the call in the
\* compilation failure; one marked successful that names a file makes the
\* call request that file, once, whatever else it carries; every other
\* envelope, one marked successful that carries bytes inline but names no
\* file included, ends the call in the unexpected-response failure without
\* a download; no submit response ends the call in Success.
C17_EnvelopeDispatch ==
    /\ EnvelopeReceived =>
          IF SubmitEnv.status = "error"
          THEN pc = "done" /\ ThrownMsg \in CompilationFailedMsgs /\ nFetch = 0
          ELSE IF SubmitEnv.status = "success" /\ SubmitEnv.filename # ""
          THEN /\ nFetch = 1
               /\ pc = "fetch" => net = {RtexPdfRequest(SubmitEnv.filename)}
          ELSE /\ pc = "done" /\ ThrownMsg = "UnexpectedEnvelope" /\ nFetch = 0
               /\ settled.returned = None
    /\ (impl = "rtex" /\ pc = "done" /\ fetchResp = None) => settled.returned = None

\* An envelope marked successful that carried the bytes inline and named no
\* file was refused.
C17_Witness ==
    /\ EnvelopeReceived /\ pc = "done"
    /\ SubmitEnv = EnvInline("", <<"%PDF">>)
    /\ ThrownMsg = "UnexpectedEnvelope" /\ nFetch = 0

\* -------------------------------------------------------------------- C18
\* The response that ended the call, and the ways a call fails that are not
\* a failed compilation.
LastResp == IF fetchResp # None THEN fetchResp ELSE submitResp
NetworkFailed == pc = "done" /\ (submitResp = None \/ (nFetch = 1 /\ fetchResp = None))
Answered == pc = "done" /\ ~NetworkFailed
ServerError == Answered /\ LastResp.status >= 500
OriginRejected == Answered /\ ~Ok(LastResp.status) /\ LastResp.status < 500
\* A 2xx page the client takes for the relay's: by its words.
RelayPage ==
    /\ Answered /\ Ok(LastResp.status) /\ Readable(LastResp)
    /\ IF impl = "latexonline"
       THEN /\ ~CtIncludes(LastResp.ct, "application/pdf")
            /\ (CtIncludes(LastResp.ct, "text/plain") \/ CtIncludes(LastResp.ct, "text/html"))
            /\ ProxyWords(BodyText(LastResp.body))
       ELSE /\ fetchResp # None /\ BlobType(fetchResp.ct) # <<"application/pdf">>
            /\ (\/ IncludesLower(BodyText(fetchResp.body), "proxy")
                \/ IncludesLower(BodyText(fetchResp.body), "error"))
\* A 2xx response of a shape the client does not know.
UnknownShape ==
    /\ Answered /\ Ok(LastResp.status) /\ ~RelayPage
    /\ IF impl = "latexonline" THEN ~Readable(LastResp) \/ Unrecognized(LastResp.ct)
       ELSE IF fetchResp # None THEN ~DeclaresPdf(fetchResp) \/ ~Readable(fetchResp)
       ELSE ~JsonParses(submitResp.body) \/ submitResp.body.env.isNull
            \/ submitResp.body.env.status # "error"
\* The messages thrown for a non-2xx status below 500, the origin's refusal.
OriginStatusMsgs == {"ServiceOrProxyReturnedError", "ServiceReturnedError", "FailedToDownloadPdf"}

\* C18 as stated: a failure of the network, of the relay (a 5xx status or a
\* relay error page) or an unknown response shape is never reported as the
\* compilation failure, and a relay failure is reported with another kind
\* of error than a failure reported by the origin service.
C18_RelayKindDistinct ==
    /\ (NetworkFailed \/ ServerError \/ RelayPage \/ UnknownShape) =>
          (settled.thrown # None /\ ThrownMsg \notin CompilationFailedMsgs)
    /\ OriginRejected => ThrownMsg \in OriginStatusMsgs
    /\ (ServerError \/ RelayPage) => ThrownMsg \notin OriginStatusMsgs

\* C18 amended: such failures are never reported as the compilation
\* failure, which is thrown only for a 2xx text response without proxy
\* words (single-phase) or a 2xx envelope with status error (two-phase); a
\* page with the relay's words has its own message; a 5xx status has a
\* message of its own only at the submit of the two-phase client, and
\* otherwise the message of every other non-2xx status.
C18_FailureKinds ==
    /\ (NetworkFailed \/ ServerError \/ RelayPage \/ UnknownShape) =>
          (settled.thrown # None /\ ThrownMsg \notin CompilationFailedMsgs)
    /\ NetworkFailed => ThrownMsg \in TransportUnreachableMsgs
    /\ RelayPage => ThrownMsg \in RelayFailureMsgs
    /\ UnknownShape => ThrownMsg \in ProtocolViolationMsgs \cup {"BodyReadFailed"}
    /\ OriginRejected => ThrownMsg \in OriginStatusMsgs
    /\ ServerError =>
          IF impl = "rtex" /\ fetchResp = None
          THEN ThrownMsg = "ServiceOrProxyDown"
          ELSE ThrownMsg \in OriginStatusMsgs
    /\ (pc = "done" /\ ThrownMsg \in CompilationFailedMsgs) =>
          /\ Answered /\ Ok(LastResp.status) /\ fetchResp = None
          /\ IF impl = "latexonline"
             THEN CtIncludes(LastResp.ct, "text/plain") \/ CtIncludes(LastResp.ct, "text/html")
             ELSE EnvelopeReceived /\ SubmitEnv.status = "error"

\* A 502 was reported by the single-phase client with the message of a 404.
C18_Witness ==
    /\ ServerError /\ impl = "latexonline" /\ LastResp.status = 502
    /\ ThrownMsg = "ServiceOrProxyReturnedError"

\* -------------------------------------------------------------------- C19
\* C19 as stated: every request in flight, submit and download alike,
\* carries the source text, an engine identifier and an output-type
\* identifier.
C19_EveryRequestComplete ==
    \A r \in net : r.code \in Docs /\ r.command # "" /\ r.format # ""

\* C19 amended: the submit request carries the source text exactly as it was
\* passed to the call and one fixed identifier, the engine pdflatex from the
\* single-phase client (no output type), the output type pdf from the
\* two-phase client (no engine); the download request carries the file name
\* of the envelope and neither the source text nor an identifier.
C19_RequestContents ==
    /\ [][(pc = "idle" /\ pc' = "submit") =>
            net' = {[phase |-> "submit", code |-> latexCode,
                     command |-> IF impl = "latexonline" THEN "pdflatex" ELSE "",
                     format |-> IF impl = "latexonline" THEN "" ELSE "pdf",
                     filename |-> ""]}]_vars
    /\ [](pc = "submit" =>
            /\ Cardinality(net) = 1
            /\ \A r \in net : r.phase = "submit" /\ r.code \in Docs /\ r.filename = ""
                              /\ (r.command = "") # (r.format = ""))
    /\ [](pc = "fetch" =>
            net = {[phase |-> "fetch", code |-> <<>>, command |-> "", format |-> "",
                    filename |-> submitResp.body.env.filename]})
    /\ [][(pc = "submit" /\ pc' = "submit") => net' = net]_vars

\* The request of a call made for docB is still in flight, unchanged, after
\* the editor went back to docA.
C19_Witness ==
    /\ pc = "submit" /\ impl = "latexonline" /\ latexCode = docA
    /\ net = {DirectRequest(docB)}

\* -------------------------------------------------------------------- C21
\* The state in which the claim has Enter start the whole-document update.
EnterCondition == ~ControlsBusy /\ ~Blank(userPrompt) /\ ~IsTextSelected

\* C21: in every reachable state of App, pressing Enter without Shift in the
\* prompt box starts the whole-document update when the app is not busy, the
\* prompt is not blank and no text is selected, and changes nothing in every
\* other state; no Enter starts 'Modify Selected Code', and Shift+Enter
\* changes nothing.
C21_EnterStartsUpdateOnly ==
    /\ EnterCondition =>
           ENABLED (HandleKeyDown("Enter", FALSE) /\ aiCall'.op = "update"
                    /\ aiCall'.by = "Enter" /\ isLoading')
    /\ ~EnterCondition => ~ENABLED (HandleKeyDown("Enter", FALSE) /\ vars' # vars)
    /\ ~ENABLED (HandleKeyDown("Enter", FALSE) /\ aiCall' # aiCall /\ aiCall'.op # "update")
    /\ ~ENABLED (HandleKeyDown("Enter", TRUE) /\ vars' # vars)
    /\ aiCall.by = "Enter" => aiCall.op = "update"

\* An update started by the Enter key is in flight.
C21_Witness == aiCall.op = "update" /\ aiCall.by = "Enter" /\ isLoading

\* -------------------------------------------------------------------- C22
CompileInFlight == pc # "idle"
AiInFlight == aiCall.op # "null"

\* A step in which a handler starts an AI call, or a compile call.
AiStarts == aiCall' # aiCall /\ aiCall'.op # "null"
CompileStarts == pc' = "submit" /\ pc # "submit"

C23_BusyFlagsReleased ==
    /\ isCompiling ~> ~isCompiling
    /\ isLoading ~> (~isLoading /\ activeActionType = "null")

\* An update has failed on an empty answer of the model and the app is idle again.
C23_Witness ==
    /\ ~isLoading /\ ~isCompiling /\ activeActionType = "null"
    /\ error = CaughtError("update", HandleApiError(EmptyResponseMsg).msg)

AiFails == AiInFlight /\ ~AiInFlight' /\ error' # None

\* C25: the step in which an AI operation fails, on an error of the model,
\* an empty answer or a missing API key, sets error and leaves latexCode,
\* outputFormat, the prompt and the pending image and PDF as they are, and so
\* does every step that sets error; every answer the service function
\* rejects ends the operation in such a step; outputFormat changes only in
\* the step that completes a conversion, together with latexCode becoming
\* the cleaned answer of the model.
C25_FailureSetsErrorOnly ==
    /\ [][(AiFails \/ (error' # error /\ error' # None)) =>
              UNCHANGED <<latexCode, outputFormat, userPrompt, pastedImage, selectedPdf>>]_vars
    /\ [][\A response \in AppModelResponses :
              (AiResponds(response) /\ ServiceOutcome(response).thrown # None) => AiFails]_vars
    /\ [][AiKeyMissing => (AiFails /\ error' = Error(KeyMissingMsg))]_vars
    /\ [][outputFormat' # outputFormat =>
              /\ aiCall.op = "convert" /\ ~AiInFlight' /\ error' = None
              /\ outputFormat' = aiCall.format
              /\ \E response \in AppModelResponses :
                     /\ ServiceOutcome(response).returned # None
                     /\ latexCode' = ServiceOutcome(response).returned.text]_vars

\* A generation from an image has failed on an empty answer; the image is
\* still there.
C25_Witness ==
    /\ ~isLoading /\ pastedImage.present /\ userPrompt = <<"g">>
    /\ error = CaughtError("generateImage", HandleApiError(EmptyResponseMsg).msg)

\* -------------------------------------------------------------------- C26
\* The step in which a 'Modify Selected Code' in flight applies its result.
ModifySucceeds == aiCall.op = "modify" /\ ~AiInFlight' /\ error' = None

\* C26: the step that applies a successful 'Modify Selected Code' replaces
\* the selected range of the document the editor holds at that moment by
\* the rewritten snippet and keeps every character before and after the
\* range, also when the user has edited the document while the request was
\* in flight.
C26_ModifyKeepsEdits ==
    [][ModifySucceeds =>
           \E response \in AppModelResponses :
               /\ ServiceOutcome(response).returned # None
               /\ latexCode' = Splice(latexCode, aiCall.sel,
                                      ServiceOutcome(response).returned.text)]_vars

\* -------------------------------------------------------------------- C27
\* The step in which handleCompileAndDownload ends, and the steps of a compile.
CompileEnds == pc = "done" /\ pc' = "idle"
CompileMoves == pc' # pc

\* C27: the step that ends a compile whose call resolved hands exactly that
\* Blob to the browser once and leaves compileError null; the step that ends
\* a compile whose call threw downloads nothing and sets compileError to the
\* thrown error's message; no step of a compile changes latexCode or
\* outputFormat or leaves error set.
C27_CompileOutcomeInApp ==
    /\ [][CompileEnds =>
              IF settled.returned # None
              THEN downloads' = <<settled.returned>> /\ compileError' = None
              ELSE downloads' = <<>> /\ compileError' = settled.thrown
                   /\ compileError' # None]_vars
    /\ [][CompileMoves =>
              (UNCHANGED <<latexCode, outputFormat>> /\ error' = None)]_vars
    /\ [](CompileInFlight => (error = None /\ compileError = None /\ downloads = <<>>))

\* After a conversion to notes, a compile has ended with one download.
C27_Witness ==
    /\ pc = "idle" /\ ~isCompiling /\ Len(downloads) = 1 /\ compileError = None
    /\ outputFormat = "note"

C29_MissingKeyMessageIsRaw ==
    /\ [](apiKey = "" => (AiInFlight => aiCall.sent = 0))
    /\ [][(apiKey = "" /\ AiStarts) => aiCall'.sent = 0]_vars
    /\ [][(apiKey = "" /\ AiInFlight /\ ~AiInFlight') =>
              (error' = Error(KeyMissingMsg) /\ StartsWithKeyMissing(error'.msg)
               /\ UNCHANGED latexCode)]_vars
    /\ [](\A msg \in SdkErrors \cup {KeyMissingMsg} :
              StartsWithKeyMissing(msg) => HandleApiError(msg) = Error(msg))

\* Without the key, 'Modify Selected Code' has failed: the selection and the
\* prompt are still there and the raw message is shown.
C29_Witness ==
    /\ apiKey = "" /\ ~isLoading /\ error = Error(KeyMissingMsg)
    /\ IsTextSelected /\ ~Blank(userPrompt) /\ pastedImage.present

====
